---- MODULE Spec2Model ----
(***************************************************************************)
(* State-machine model of the EOOS bxCAN driver for STM32F103xx.           *)
(*                                                                         *)
(* TX path : CanResourceTx::transmit, CanResourceTxMailbox and the TX ISR  *)
(*           CanResourceTxMailboxRoutine::start.                           *)
(* RX path : CanResourceRx::receive, CanResourceRxFifo::receive and the RX *)
(*           ISR CanResourceRxFifo::start.                                 *)
(*                                                                         *)
(* Device : Can::create, CanController::createResource, the constructor,  *)
(*           construct, initialize and the destructor of CanResource.      *)
(*                                                                         *)
(* Filters: CanResourceRx::setReceiveFilter.                               *)
(*                                                                         *)
(* Frames : the register encoding of CanResourceTxMailbox::transmit and    *)
(*           the decoding of the RX ISR.                                   *)
(*                                                                         *)
(* Threads, the hardware and the interrupt service routines are separate   *)
(* processes.  An ISR runs to completion with respect to the threads, but  *)
(* the moment at which a pending interrupt is serviced is not fixed.       *)
(***************************************************************************)
EXTENDS Integers, Sequences, FiniteSets

\* ------------------------------------------------------------------ bounds
NProducers == 2

NFilterCallers == 2

NReceivers == 2

MaxFrames == 4

MaxTxFailures == 2

MaxSceServed == 3

MaxIdleIsr == 1

MaxLoadFrames == 7

\* ------------------------------------------------------- program constants
NUMBER_OF_TX_MAILBOXS == 3

NUMBER_OF_RX_MAILBOXS_IN_FIFO == 3

NUMBER_OF_RX_FIFOS == 2

\* Depth of one hardware receive FIFO of the controller.
HW_FIFO_DEPTH == 3

Producers == 1..NProducers

Receivers == 1..NReceivers

FilterCallers == 1..NFilterCallers

Mailboxes == 0..(NUMBER_OF_TX_MAILBOXS - 1)

Fifos == 0..(NUMBER_OF_RX_FIFOS - 1)

NoThread == 0

VARIABLES
    \* --- TX engine (CanResourceTx)
    mailboxSem,     \* permits of mailboxSem_
    txMutex,        \* owner of CanResourceTx::mutex_, NoThread when free
    txPc,           \* position of each producer inside transmit
    txI,            \* loop index i of the scan in transmit
    txRes,          \* result of the last transmit call of each producer
    \* --- TSR register bits of the three mailboxes
    tme,            \* TSR.TMEx
    rqcp,           \* TSR.RQCPx
    txStatus,       \* which of TSR.TXOKx, ALSTx, TERRx are set
    \* --- CanResourceTxMailbox
    errorCounter,   \* errorCounter_ of each mailbox
    \* --- TX history
    owed,           \* per mailbox: requests written and not yet acknowledged
    txLost,         \* permits taken by calls that returned false
    errEvents,      \* per mailbox: acknowledged completions without TXOK
    txFailures,     \* completions without TXOK since the initial state
    \* --- RX engine (CanResourceRx, CanResourceRxFifo)
    rflm,           \* config.reg.mcr.rflm
    rxQueue,        \* fifo_ of each CanResourceRxFifo
    rxSem,          \* permits of sem_ of each CanResourceRxFifo
    rxMutex,        \* owner of mutex_ of each CanResourceRxFifo
    rxPc,           \* position of each consumer inside receive
    rxFifoOf,       \* the fifo argument of the consumer's current call
    rxMsg,          \* *message of the consumer's current call
    rxRes,          \* result of the last receive call of each consumer
    \* --- hardware receive FIFOs
    hwFifo,         \* pending hardware entries, oldest first (FMPx = length)
    arrived,        \* frames that reached the controller, all FIFOs
    \* --- RX history
    rxLog,          \* per FIFO: frames read by the ISR, in order, each with
                    \* rxServed and fifo_.isFull() at the time of the read
    rxDelivered,    \* per FIFO: frames returned by receive, in order
    rxServed,       \* per FIFO: receive calls that have read the queue head
    rxSpurious,     \* per FIFO: a receive returned false after its acquire
    \* --- device (Can::create, CanResource)
    devPc,          \* position of the thread that creates and drops the device
    cfgNumber,      \* config.number
    cpuClock,       \* getPllController().getCpuClock()
    createRes,      \* what Can::create returned
    irq,            \* the four interrupt handles: null, disabled or enabled
    engine,         \* isConstructed() of tx_, fifo0_, fifo1_, rx_, sce_, device
    can1en,         \* RCC.APB1ENR.CAN1EN
    mcr,            \* CAN_MCR bits SLEEP and INRQ
    inak,           \* CAN_MSR.INAK
    ier,            \* CAN_IER bits that are set
    timeout,        \* the local countdown of initialize, 32 bits as two halves
    \* --- device history
    devLog,         \* hardware-visible steps of construction, in order
    pollExpired,    \* an INAK wait ended without observing the awaited value
    \* --- filter registers of the controller (sets of the bank bits set)
    fmrFinit,       \* CAN_FMR.FINIT
    fa1r,           \* CAN_FA1R
    fm1r,           \* CAN_FM1R
    fs1r,           \* CAN_FS1R
    ffa1r,          \* CAN_FFA1R
    firx,           \* CAN_FiRx: the two words of each bank
    \* --- filter programming (CanResourceRx::setReceiveFilter)
    filterMutex,    \* owner of CanResourceRx::mutex_, NoThread when free
    fPc,            \* position of each caller inside setReceiveFilter
    fArg,           \* the filter argument of the caller's current call
    fLocal,         \* the caller's lib::Register copies of FA1R, FM1R, FS1R, FFA1R
    fRes,           \* result of the last setReceiveFilter call of each caller
    \* --- filter history
    bankCfg,        \* per bank: the filter of the last call that returned true
    \* --- one frame through the mailbox registers
    codecPc,        \* "idle", the last commit of transmit ("txrq0", "id",
                    \* "dlc", "tdl", "tdh", "written"), "read" (ISR done)
    codecIn,        \* the Can::Message passed to transmit
    codecRegs,      \* the four registers of the mailbox, each as 16-bit halves
    codecOut,       \* the Can::Message the ISR built from the registers
    \* --- MCR options and status change interrupt
    cfgMcr,         \* config.reg.mcr: txfp, nart, awum, abom, ttcm, dbf
    mcrOpt,         \* CAN_MCR bits TXFP, RFLM, NART, AWUM, ABOM, TTCM, DBF
    sceStatus,      \* flags set in CAN_ESR (EWGF, EPVF, BOFF, LEC) and
                    \* CAN_MSR (ERRI, WKUI, SLAKI)
    sceServed,      \* invocations of CanResourceStatus::start
    rxIdleIsr,      \* per FIFO: invocations of the RX ISR that found FMPx == 0
    msrReads        \* reads of MSR made by the running wait loop of initialize

\* The state the error counter rests on.
txErrVars == <<txStatus, errorCounter, errEvents, txFailures>>

txVars == <<mailboxSem, txMutex, txPc, txI, txRes, tme, rqcp, owed, txLost,
            txErrVars>>

rxVars == <<rflm, rxQueue, rxSem, rxMutex, rxPc, rxFifoOf, rxMsg, rxRes,
            hwFifo, arrived, rxLog, rxDelivered, rxServed, rxSpurious>>

devVars == <<devPc, cfgNumber, cpuClock, createRes, irq, engine, can1en, mcr,
             inak, ier, timeout, devLog, pollExpired>>

filterRegs == <<fmrFinit, fa1r, fm1r, fs1r, ffa1r, firx>>

filterVars == <<filterRegs, filterMutex, fPc, fArg, fLocal, fRes, bankCfg>>

codecVars == <<codecPc, codecIn, codecRegs, codecOut>>

optVars == <<cfgMcr, mcrOpt>>

sceVars == <<sceStatus, sceServed>>

idleVars == <<rxIdleIsr>>

pollVars == <<msrReads>>

vars == <<txVars, rxVars, devVars, filterVars, codecVars, optVars, sceVars,
          idleVars, pollVars>>

\* What the actions of one part leave alone.
nonTxVars ==
    <<rxVars, devVars, filterVars, codecVars, optVars, sceVars, idleVars, pollVars>>

nonRxVars ==
    <<txVars, devVars, filterVars, codecVars, optVars, sceVars, idleVars, pollVars>>

nonDevVars ==
    <<txVars, rxVars, filterVars, codecVars, sceVars, idleVars, pollVars>>

nonFilterVars ==
    <<txVars, rxVars, devVars, codecVars, optVars, sceVars, idleVars, pollVars>>

nonCodecVars ==
    <<txVars, rxVars, devVars, filterVars, optVars, sceVars, idleVars, pollVars>>

nonSceVars ==
    <<txVars, rxVars, devVars, filterVars, codecVars, optVars, idleVars, pollVars>>

NoMsg == [fifo |-> -1, seq |-> 0]

\* ------------------------------------------------------------ construction

\* CanResourceTx::CanResourceTx: mailboxSem_(NUMBER_OF_TX_MAILBOXS, NUMBER_OF_TX_MAILBOXS)
TxSemInitial == NUMBER_OF_TX_MAILBOXS

TxSemMaximum == NUMBER_OF_TX_MAILBOXS

\* CanResourceRxFifo::CanResourceRxFifo: sem_(0, NUMBER_OF_RX_MAILBOXS_IN_FIFO)
RxSemInitial == 0

RxSemMaximum == NUMBER_OF_RX_MAILBOXS_IN_FIFO

\* The TX engine with no call inside and the three mailboxes empty, each
\* having acknowledged the given number of failed requests so far.
TxIdle(failed) ==
    /\ mailboxSem = TxSemInitial
    /\ txMutex = NoThread
    /\ txPc = [p \in Producers |-> "idle"]
    /\ txI = [p \in Producers |-> 0]
    /\ txRes = [p \in Producers |-> "none"]
    /\ tme = [i \in Mailboxes |-> 1]
    /\ rqcp = [i \in Mailboxes |-> 0]
    /\ owed = [i \in Mailboxes |-> 0]
    /\ txLost = 0
    /\ txStatus = [i \in Mailboxes |-> {}]
    /\ errorCounter = failed
    /\ errEvents = failed
    /\ txFailures = 0

TxInit == TxIdle([i \in Mailboxes |-> 0])

RxInit ==
    /\ rflm \in {0, 1}
    /\ rxQueue = [f \in Fifos |-> <<>>]
    /\ rxSem = [f \in Fifos |-> RxSemInitial]
    /\ rxMutex = [f \in Fifos |-> NoThread]
    /\ rxPc = [t \in Receivers |-> "idle"]
    /\ rxFifoOf = [t \in Receivers |-> 0]
    /\ rxMsg = [t \in Receivers |-> NoMsg]
    /\ rxRes = [t \in Receivers |-> "none"]
    /\ hwFifo = [f \in Fifos |-> <<>>]
    /\ arrived = 0
    /\ rxLog = [f \in Fifos |-> <<>>]
    /\ rxDelivered = [f \in Fifos |-> <<>>]
    /\ rxServed = [f \in Fifos |-> 0]
    /\ rxSpurious = [f \in Fifos |-> FALSE]
    /\ rxIdleIsr = [f \in Fifos |-> 0]

\* ------------------------------------------------------------------ device

NUMBER_CAN1 == 0

CPU_CLOCK_72MHZ == 72000000

\* Values of config.number and of the cpu clock that a construction meets.
Numbers == {NUMBER_CAN1, NUMBER_CAN1 + 1}

CpuClocks == {CPU_CLOCK_72MHZ, CPU_CLOCK_72MHZ \div 9}

\* uint32_t timeout( 0x0000FFFF )
POLL_TIMEOUT == 65535

Sources == {"tx", "rx0", "rx1", "sce"}

\* The interrupt-enable bits that initialize sets and deinitialize clears.
IerBits == {"tmeie", "fmpie0", "ffie0", "fovie0", "fmpie1", "ffie1", "fovie1",
            "ewgie", "epvie", "bofie", "lecie", "errie", "wkuie", "slkie"}

\* Can::Config::Reg::Mcr without rflm, which the RX engine holds.
McrConfig(txfp, nart, awum, abom, ttcm, dbf) ==
    [txfp |-> txfp, nart |-> nart, awum |-> awum, abom |-> abom,
     ttcm |-> ttcm, dbf |-> dbf]

\* Every combination of the option bits of a config.
McrConfigs ==
    { McrConfig(txfp, nart, awum, abom, ttcm, dbf) :
        txfp \in {0, 1}, nart \in {0, 1}, awum \in {0, 1}, abom \in {0, 1},
        ttcm \in {0, 1}, dbf \in {0, 1} }

\* A uint32_t kept as two 16-bit halves.
U32(h, l) == [hi |-> h, lo |-> l]

IsZero32(t) == t.hi = 0 /\ t.lo = 0

\* timeout-- on a uint32_t: 0 wraps to 0xFFFFFFFF.
Dec32(t) ==
    IF t.lo = 0
    THEN U32((t.hi + 65535) % 65536, 65535)
    ELSE U32(t.hi, t.lo - 1)

\* Steps of a construction in which every wait observed the awaited INAK.
ConstructedLog ==
    <<"irq tx", "irq rx0", "irq rx1", "irq sce", "CAN1EN=1", "MCR.SLEEP=0",
      "MCR.INRQ=1", "poll INAK==1", "MCR", "BTR", "MCR.INRQ=0",
      "poll INAK==0", "IER">>

\* No device object yet: the registers hold their reset values.
DevBoot ==
    /\ devPc = "none"
    /\ cfgNumber = NUMBER_CAN1
    /\ cpuClock = CPU_CLOCK_72MHZ
    /\ createRes = "none"
    /\ irq = [h \in Sources |-> "null"]
    /\ engine = [tx |-> FALSE, fifo0 |-> FALSE, fifo1 |-> FALSE, rx |-> FALSE,
                 sce |-> FALSE, dev |-> FALSE]
    /\ can1en = 0
    /\ mcr = [sleep |-> 1, inrq |-> 0]
    /\ inak = 0
    /\ ier = {}
    /\ timeout = U32(0, 0)
    /\ devLog = <<>>
    /\ pollExpired = FALSE
    /\ cfgMcr = McrConfig(0, 0, 0, 0, 0, 0)
    /\ mcrOpt = [txfp |-> 0, rflm |-> 0, nart |-> 0, awum |-> 0, abom |-> 0,
                 ttcm |-> 0, dbf |-> 1]
    /\ sceStatus = {}
    /\ sceServed = 0
    /\ msrReads = 0

\* The device as Can::create hands it out after a construction in which
\* every step succeeded; the second wait observed INAK == 0 at its first
\* read.
DevConstructed ==
    /\ devPc = "alive"
    /\ cfgNumber = NUMBER_CAN1
    /\ cpuClock = CPU_CLOCK_72MHZ
    /\ createRes = "handle"
    /\ irq = [h \in Sources |-> "enabled"]
    /\ engine = [tx |-> TRUE, fifo0 |-> TRUE, fifo1 |-> TRUE, rx |-> TRUE,
                 sce |-> TRUE, dev |-> TRUE]
    /\ can1en = 1
    /\ mcr = [sleep |-> 0, inrq |-> 0]
    /\ inak = 0
    /\ ier = IerBits
    /\ timeout = U32(0, POLL_TIMEOUT)
    /\ devLog = ConstructedLog
    /\ pollExpired = FALSE
    /\ cfgMcr = McrConfig(0, 0, 0, 0, 0, 0)
    /\ mcrOpt = [txfp |-> 0, rflm |-> rflm, nart |-> 0, awum |-> 0,
                 abom |-> 0, ttcm |-> 0, dbf |-> 0]
    /\ sceStatus = {}
    /\ sceServed = 0
    /\ msrReads = 0

\* ----------------------------------------------------------------- filters

\* Can::RxFilter::NUMBER_OF_FILTER_GROUPS
NUMBER_OF_FILTER_GROUPS == 14

Banks == 0..(NUMBER_OF_FILTER_GROUPS - 1)

\* Can::RxFilter: index, fifo, mode, scale and the two 32-bit words of the
\* filters union.
Filter(index, fifo, mode, scale, w0, w1) ==
    [index |-> index, fifo |-> fifo, mode |-> mode, scale |-> scale,
     words |-> <<w0, w1>>]

NoFilter == Filter(-1, 0, "IDMASK", "16BIT", 0, 0)

\* The filters the callers pass: the first and the last bank, both FIFOs,
\* modes and scales, a second filter for the first bank, and the two smallest
\* indexes that are no bank.
FilterInputs ==
    { Filter(0, 0, "IDMASK", "32BIT", 0, 0),
      Filter(0, 1, "IDLIST", "16BIT", 1, 2),
      Filter(NUMBER_OF_FILTER_GROUPS - 1, 1, "IDLIST", "32BIT", 3, 4),
      Filter(NUMBER_OF_FILTER_GROUPS, 0, "IDMASK", "32BIT", 5, 6),
      Filter(NUMBER_OF_FILTER_GROUPS + 1, 1, "IDLIST", "16BIT", 7, 8) }

NoLocal == [fa1r |-> {}, fm1r |-> {}, fs1r |-> {}, ffa1r |-> {}]

FilterIdle ==
    /\ filterMutex = NoThread
    /\ fPc = [c \in FilterCallers |-> "idle"]
    /\ fArg = [c \in FilterCallers |-> NoFilter]
    /\ fLocal = [c \in FilterCallers |-> NoLocal]
    /\ fRes = [c \in FilterCallers |-> "none"]

\* The filter registers after reset of the controller: FINIT is set, no bank
\* is active, every bank is in mask mode, dual 16-bit scale, assigned to
\* FIFO 0.  Neither the constructor nor initialize writes a filter register.
FilterReset ==
    /\ fmrFinit = 1
    /\ fa1r = {}
    /\ fm1r = {}
    /\ fs1r = {}
    /\ ffa1r = {}
    /\ firx = [b \in Banks |-> <<0, 0>>]
    /\ bankCfg = [b \in Banks |-> NoFilter]
    /\ FilterIdle

\* The filters of the device while it carries traffic: bank 0 passes frames
\* to FIFO 0 and bank 13 to FIFO 1, each set by a setReceiveFilter call.
FilterProgrammed ==
    LET f0 == Filter(0, 0, "IDMASK", "32BIT", 0, 0)
        f1 == Filter(NUMBER_OF_FILTER_GROUPS - 1, 1, "IDLIST", "32BIT", 3, 4)
    IN  /\ fmrFinit = 0
        /\ fa1r = {f0.index, f1.index}
        /\ fm1r = {f1.index}
        /\ fs1r = {f0.index, f1.index}
        /\ ffa1r = {f1.index}
        /\ firx = [b \in Banks |-> IF b = f0.index THEN f0.words
                                   ELSE IF b = f1.index THEN f1.words
                                   ELSE <<0, 0>>]
        /\ bankCfg = [b \in Banks |-> IF b = f0.index THEN f0
                                      ELSE IF b = f1.index THEN f1
                                      ELSE NoFilter]
        /\ FilterIdle

\* --- frames and mailbox registers

\* Can::Id: uint32_t exid : 18; uint32_t stid : 11;
EXID_WIDTH == 18

STID_WIDTH == 11

\* Can::Message::data: uint8_t v8[8]
DATA_BYTES == 8

\* Width of one half of a 32-bit register and of one byte.
HALF_WIDTH == 16

BYTE_WIDTH == 8

RECURSIVE Pow2(_)
Pow2(n) == IF n = 0 THEN 1 ELSE 2 * Pow2(n - 1)

\* A 32-bit word as its two halves.
Word(hi, lo) == [hi |-> hi, lo |-> lo]

\* Can::Message
Message(stid, exid, rtr, ide, dlc, data) ==
    [id |-> [stid |-> stid, exid |-> exid], rtr |-> rtr, ide |-> ide,
     dlc |-> dlc, data |-> data]

NoMessage == Message(0, 0, FALSE, FALSE, 0, [i \in 1..DATA_BYTES |-> 0])

\* The payloads passed to transmit: all bits clear, all bits set, and bytes
\* that differ from each other with the top bit of each word set.
Payloads ==
    { [i \in 1..DATA_BYTES |-> 0],
      [i \in 1..DATA_BYTES |-> Pow2(BYTE_WIDTH) - 1],
      [i \in 1..DATA_BYTES |-> Pow2(BYTE_WIDTH - 1) + i] }

\* The identifier fields passed to transmit: no bit, the lowest bit, the
\* highest bit and every bit of the field.
FieldValues(width) == {0, 1, Pow2(width - 1), Pow2(width) - 1}

\* The frames passed to transmit.
Messages ==
    { Message(stid, exid, rtr, ide, dlc, data) :
        stid \in FieldValues(STID_WIDTH), exid \in FieldValues(EXID_WIDTH),
        rtr \in BOOLEAN, ide \in BOOLEAN, dlc \in 0..DATA_BYTES,
        data \in Payloads }

\* The mailbox registers TIxR, TDTxR, TDLxR and TDHxR.
Regs(tixr, tdtxr, tdlxr, tdhxr) ==
    [tixr |-> tixr, tdtxr |-> tdtxr, tdlxr |-> tdlxr, tdhxr |-> tdhxr]

\* What an empty mailbox holds before transmit writes it: every bit clear
\* after reset, or the bits of an earlier frame with TXRQ cleared by the
\* hardware.
EmptyMailboxRegs ==
    LET zero == Word(0, 0)
        ones == Word(Pow2(HALF_WIDTH) - 1, Pow2(HALF_WIDTH) - 1)
    IN  { Regs(zero, zero, zero, zero),
          Regs(Word(ones.hi, ones.lo - 1), ones, ones, ones) }

CodecIdle ==
    /\ codecPc = "idle"
    /\ codecIn = NoMessage
    /\ codecRegs = Regs(Word(0, 0), Word(0, 0), Word(0, 0), Word(0, 0))
    /\ codecOut = NoMessage

\* An empty mailbox of either content.
CodecBoot ==
    /\ codecPc = "idle"
    /\ codecIn = NoMessage
    /\ codecRegs \in EmptyMailboxRegs
    /\ codecOut = NoMessage

\* The state after a successful Can::create and the programming of the
\* filters.
Init == TxInit /\ RxInit /\ DevConstructed /\ FilterProgrammed /\ CodecIdle

\* The state after a successful Can::create.
InitCreated == TxInit /\ RxInit /\ DevConstructed /\ FilterReset /\ CodecIdle

\* The state before Can::create.
InitBoot == TxInit /\ RxInit /\ DevBoot /\ FilterReset /\ CodecIdle

\* The state after a successful Can::create, with a mailbox of either
\* content.
InitCodec == TxInit /\ RxInit /\ DevConstructed /\ FilterProgrammed /\ CodecBoot

\* A CanResource object exists: its constructor has returned and its
\* destructor has not started.
DeviceExists == devPc \in {"built", "alive"}

\* ================================================================= TX path

\* Variant of IsEmpty: every mailbox is taken for empty.
IsEmpty_Always(i) == TRUE

\* CanResourceTxMailbox::isEmpty
IsEmpty(i) == tme[i] = 1

\* CanResource::transmit entered by producer p and passed to tx_.transmit:
\* when tx_.isConstructed() holds the call goes on to mailboxSem_.acquire(),
\* otherwise it returns false.
TxCall(p) ==
    /\ DeviceExists
    /\ txPc[p] = "idle"
    /\ IF engine.tx
       THEN /\ txPc' = [txPc EXCEPT ![p] = "acquire"]
            /\ txRes' = [txRes EXCEPT ![p] = "none"]
       ELSE /\ txRes' = [txRes EXCEPT ![p] = "false"]
            /\ UNCHANGED txPc
    /\ UNCHANGED <<mailboxSem, txMutex, txI, tme, rqcp, owed, txLost>>
    /\ UNCHANGED txErrVars
    /\ UNCHANGED nonTxVars

\* Variant of TxAcquire: the call goes on without taking a permit.
TxAcquire_NoPermit(p) ==
    /\ txPc[p] = "acquire"
    /\ txPc' = [txPc EXCEPT ![p] = "lock"]
    /\ UNCHANGED <<mailboxSem, txMutex, txI, txRes, tme, rqcp, owed, txLost>>
    /\ UNCHANGED txErrVars
    /\ UNCHANGED nonTxVars

\* mailboxSem_.acquire(): blocks while no permit is free.
TxAcquire(p) ==
    /\ txPc[p] = "acquire"
    /\ mailboxSem > 0
    /\ mailboxSem' = mailboxSem - 1
    /\ txPc' = [txPc EXCEPT ![p] = "lock"]
    /\ UNCHANGED <<txMutex, txI, txRes, tme, rqcp, owed, txLost>>
    /\ UNCHANGED txErrVars
    /\ UNCHANGED nonTxVars

\* lib::Guard<> const guard(mutex_)
TxLock(p) ==
    /\ txPc[p] = "lock"
    /\ txMutex = NoThread
    /\ txMutex' = p
    /\ txPc' = [txPc EXCEPT ![p] = "scan"]
    /\ txI' = [txI EXCEPT ![p] = 0]
    /\ UNCHANGED <<mailboxSem, txRes, tme, rqcp, owed, txLost>>
    /\ UNCHANGED txErrVars
    /\ UNCHANGED nonTxVars

\* Variant of TxScanLimit: the scan stops one mailbox short.
TxScanLimit_OffByOne == NUMBER_OF_TX_MAILBOXS - 1

\* Upper limit of the scan loop: for(i = 0; i < NUMBER_OF_TX_MAILBOXS; i++)
TxScanLimit == NUMBER_OF_TX_MAILBOXS

\* One iteration of the scan loop of transmit, with the guard released on
\* return.  A mailbox found empty is written by CanResourceTxMailbox::transmit:
\* setting TXRQ makes the hardware clear TMEx, RQCPx and the status flags of
\* that mailbox.
TxScan(p) ==
    /\ txPc[p] = "scan"
    /\ txMutex = p
    /\ IF txI[p] >= TxScanLimit
       THEN /\ txRes' = [txRes EXCEPT ![p] = "false"]
            /\ txLost' = txLost + 1
            /\ txPc' = [txPc EXCEPT ![p] = "idle"]
            /\ txMutex' = NoThread
            /\ UNCHANGED <<txI, tme, rqcp, owed, txStatus>>
       ELSE IF IsEmpty(txI[p])
            THEN /\ tme' = [tme EXCEPT ![txI[p]] = 0]
                 /\ rqcp' = [rqcp EXCEPT ![txI[p]] = 0]
                 /\ txStatus' = [txStatus EXCEPT ![txI[p]] = {}]
                 /\ owed' = [owed EXCEPT ![txI[p]] = @ + 1]
                 /\ txRes' = [txRes EXCEPT ![p] = "true"]
                 /\ txPc' = [txPc EXCEPT ![p] = "idle"]
                 /\ txMutex' = NoThread
                 /\ UNCHANGED <<txI, txLost>>
            ELSE /\ txI' = [txI EXCEPT ![p] = @ + 1]
                 /\ UNCHANGED <<txRes, txPc, txMutex, tme, rqcp, owed, txLost,
                                txStatus>>
    /\ UNCHANGED <<mailboxSem, errorCounter, errEvents, txFailures>>
    /\ UNCHANGED nonTxVars

\* How a request ends: sent (TXOK), arbitration lost (ALST) or transmission
\* error (TERR).
TxOutcomes == {"TXOK", "ALST", "TERR"}

\* The controller finishes the request of mailbox i: TMEx and RQCPx are set,
\* and the flag of the outcome.
HwTxComplete(i, outcome) ==
    /\ tme[i] = 0
    /\ outcome # "TXOK" => txFailures < MaxTxFailures
    /\ tme' = [tme EXCEPT ![i] = 1]
    /\ rqcp' = [rqcp EXCEPT ![i] = 1]
    /\ txStatus' = [txStatus EXCEPT ![i] = {outcome}]
    /\ txFailures' = IF outcome = "TXOK" THEN txFailures ELSE txFailures + 1
    /\ UNCHANGED <<mailboxSem, txMutex, txPc, txI, txRes, owed, txLost,
                   errorCounter, errEvents>>
    /\ UNCHANGED nonTxVars

\* TSR.TXOKx as the driver reads it.
Txok(status, i) == IF "TXOK" \in status[i] THEN 1 ELSE 0

\* ERROR_COUNTER_LIMIT of isFixedRequestCompleted
ERROR_COUNTER_LIMIT == 536870912

\* Variant of ErrorCounterNext: the counter is not compared with the limit.
ErrorCounterNext_NoLimit(counter, isTransmited, txok) ==
    IF isTransmited /\ txok = 0 THEN counter + 1 ELSE counter

\* CanResourceTxMailbox::isFixedRequestCompleted, the error counter
ErrorCounterNext(counter, isTransmited, txok) ==
    IF isTransmited /\ txok = 0
    THEN IF counter < ERROR_COUNTER_LIMIT THEN counter + 1 ELSE counter
    ELSE counter

\* A write to TSR: a 1 written to RQCPx clears RQCPx and, with it, TXOKx,
\* ALSTx and TERRx; a 0 written to a flag leaves it.
TsrWrite(ones, st) ==
    [st EXCEPT !.rqcp = [j \in Mailboxes |-> IF j \in ones THEN 0 ELSE @[j]],
               !.status = [j \in Mailboxes |-> IF j \in ones THEN {} ELSE @[j]]]

\* Variant of ClearRequestStatus: the register is read, RQCPi is set in the
\* value read, and the value is written back.
ClearRequestStatus_ReadModifyWrite(i, st) ==
    TsrWrite({j \in Mailboxes : st.rqcp[j] = 1} \cup {i}, st)

\* CanResourceTxMailbox::clearRequestStatus: reg_->tsr.value = RQCPi_MASK
ClearRequestStatus(i, st) == TsrWrite({i}, st)

\* Variant of IsFixedRequestCompleted: the TME test is inverted.
IsFixedRequestCompleted_InvertedTme(snapRqcp, snapTme) ==
    (snapRqcp = 1) /\ (snapTme = 0)

\* CanResourceTxMailbox::isFixedRequestCompleted on the snapshot taken by
\* fixRequestStatus.
IsFixedRequestCompleted(snapRqcp, snapTme) == (snapRqcp = 1) /\ (snapTme = 1)

\* CanResourceTxMailbox::routine of mailbox i: fixRequestStatus takes the
\* snapshot, isFixedRequestCompleted counts an error and decides, and
\* clearRequestStatus acknowledges.
Routine(i, st) ==
    LET isTransmited == IsFixedRequestCompleted(st.rqcp[i], tme[i])
        txok == Txok(st.status, i)
        counted == [st EXCEPT
                      !.err[i] = ErrorCounterNext(@, isTransmited, txok),
                      !.events[i] = IF isTransmited /\ txok = 0
                                    THEN @ + 1 ELSE @]
    IN  IF isTransmited
        THEN [ClearRequestStatus(i, counted) EXCEPT
                 !.res = TRUE, !.owed[i] = @ - 1]
        ELSE [counted EXCEPT !.res = FALSE]

\* sys::Semaphore::releaseFromInterrupt: adds a permit up to the maximum.
ReleaseFromInterrupt(sem, max) == IF sem < max THEN sem + 1 ELSE sem

\* Body of the loop of CanResourceTxMailboxRoutine::start for mailboxes i..2
RECURSIVE TxIsrLoop(_, _)
TxIsrLoop(i, st) ==
    IF i >= NUMBER_OF_TX_MAILBOXS
    THEN st
    ELSE LET r == Routine(i, st)
         IN  TxIsrLoop(i + 1,
                 IF r.res
                 THEN [r EXCEPT !.sem = ReleaseFromInterrupt(r.sem, TxSemMaximum)]
                 ELSE r)

\* The TX interrupt (TMEIE) is asserted while some RQCPx is set.
TxIrq == \E i \in Mailboxes : rqcp[i] = 1

\* What the routines of the TX ISR read and write.
TxIsrState ==
    [res |-> FALSE, rqcp |-> rqcp, owed |-> owed, sem |-> mailboxSem,
     status |-> txStatus, err |-> errorCounter, events |-> errEvents]

\* CanResourceTxMailboxRoutine::start
TxIsr ==
    /\ TxIrq
    /\ LET st == TxIsrLoop(0, TxIsrState)
       IN  /\ rqcp' = st.rqcp
           /\ owed' = st.owed
           /\ mailboxSem' = st.sem
           /\ txStatus' = st.status
           /\ errorCounter' = st.err
           /\ errEvents' = st.events
    /\ UNCHANGED <<txMutex, txPc, txI, txRes, tme, txLost, txFailures>>
    /\ UNCHANGED nonTxVars

TxNext ==
    \/ \E p \in Producers : TxCall(p)
    \/ \E p \in Producers : TxAcquire(p)
    \/ \E p \in Producers : TxLock(p)
    \/ \E p \in Producers : TxScan(p)
    \/ \E i \in Mailboxes : HwTxComplete(i, "TXOK")
    \/ TxIsr

\* Producers, the controller and the TX ISR with every request sent: the
\* outcome of a request changes the status flags and the error counter only,
\* which neither transmit nor the permits depend on.
SpecTx == Init /\ [][TxNext]_vars

\* One producer, requests that end in any of the three ways, and the TX ISR.
\* Each mailbox has acknowledged no failed request before, or one less than
\* the limit of its error counter.
TxErrNext ==
    \/ TxCall(1)
    \/ TxAcquire(1)
    \/ TxLock(1)
    \/ TxScan(1)
    \/ \E i \in Mailboxes, outcome \in TxOutcomes : HwTxComplete(i, outcome)
    \/ TxIsr

InitTxErr ==
    /\ \E failed \in [Mailboxes -> {0, ERROR_COUNTER_LIMIT - 1}] : TxIdle(failed)
    /\ RxInit /\ DevConstructed /\ FilterProgrammed /\ CodecIdle

SpecTxErr == InitTxErr /\ [][TxErrNext]_vars

\* ================================================================= RX path

\* lib::Fifo<Can::Message, NUMBER_OF_RX_MAILBOXS_IN_FIFO>
FifoIsEmpty(q) == Len(q) = 0

FifoIsFull(q) == Len(q) = NUMBER_OF_RX_MAILBOXS_IN_FIFO

FifoPeek(q) == Head(q)

FifoRemove(q) == IF Len(q) = 0 THEN q ELSE Tail(q)

\* Variant of FifoAdd: the element is appended whatever the length.
FifoAdd_Unbounded(q, m, isLocked) == [ok |-> TRUE, q |-> Append(q, m)]

\* lib::Fifo::add: a full locked queue refuses the element, a full unlocked
\* queue replaces its oldest entry.
FifoAdd(q, m, isLocked) ==
    IF ~FifoIsFull(q)
    THEN [ok |-> TRUE, q |-> Append(q, m)]
    ELSE IF isLocked
         THEN [ok |-> FALSE, q |-> q]
         ELSE [ok |-> TRUE, q |-> Append(Tail(q), m)]

\* CanResourceRx::CanResourceRx: both FIFOs get isLocked = (rflm == 1)
IsLocked == rflm = 1

\* Variant of IsAddedToLast: the negation of isLocked() is missing.
IsAddedToLast_MissingNot(q) == IsLocked /\ FifoIsFull(q)

\* CanResourceRxFifo::start: isAddedToLast( !fifo_.isLocked() && fifo_.isFull() )
IsAddedToLast(q) == ~IsLocked /\ FifoIsFull(q)

\* Variants of RxIsrReleases: the permit is released whenever add succeeded,
\* whenever no entry was replaced, or never.
RxIsrReleases_IgnoreOverwrite(added, isAddedToLast) == added

RxIsrReleases_IgnoreAdd(added, isAddedToLast) == ~isAddedToLast

RxIsrReleases_Never(added, isAddedToLast) == FALSE

\* CanResourceRxFifo::start: sem_.releaseFromInterrupt() is reached when
\* fifo_.add(message) returned true and no entry was replaced.
RxIsrReleases(added, isAddedToLast) == added /\ ~isAddedToLast

\* A frame passes the acceptance filters towards FIFO f.  A full hardware
\* FIFO discards the incoming frame when RFLM = 1 and overwrites its last
\* entry when RFLM = 0.
HwRxFrame(f, limit) ==
    /\ arrived < limit
    /\ arrived' = arrived + 1
    /\ LET m == [fifo |-> f, seq |-> arrived + 1]
       IN  hwFifo' = [hwFifo EXCEPT ![f] =
               IF Len(@) < HW_FIFO_DEPTH
               THEN Append(@, m)
               ELSE IF IsLocked
                    THEN @
                    ELSE Append(SubSeq(@, 1, HW_FIFO_DEPTH - 1), m)]
    /\ UNCHANGED <<rflm, rxQueue, rxSem, rxMutex, rxPc, rxFifoOf, rxMsg, rxRes,
                   rxLog, rxDelivered, rxServed, rxSpurious>>
    /\ UNCHANGED nonRxVars

HwRxArrive(f) == HwRxFrame(f, MaxFrames)

\* Variant of ReleaseOutput: the commit of RFOMx = 1 is made twice.
ReleaseOutput_Twice(fifo) == IF Len(fifo) > 1 THEN Tail(Tail(fifo)) ELSE <<>>

\* CanResourceRxFifo::start: rfxr.bit().rfomx = 1; rfxr.commit() releases the
\* output mailbox, the next entry of the hardware FIFO becomes the output.
ReleaseOutput(fifo) == Tail(fifo)

\* CanResourceRxFifo::start, the ISR of FIFO f, entered with FMPx > 0: the
\* output mailbox (oldest hardware entry) is read into message, offered to
\* fifo_, a permit is released unless an entry was replaced, and RFOMx = 1
\* releases the output mailbox.
RxIsr(f) ==
    /\ Len(hwFifo[f]) > 0
    /\ LET message == Head(hwFifo[f])
           isAddedToLast == IsAddedToLast(rxQueue[f])
           added == FifoAdd(rxQueue[f], message, IsLocked)
       IN  /\ rxLog' = [rxLog EXCEPT ![f] =
                           Append(@, [msg |-> message, served |-> rxServed[f],
                                      full |-> FifoIsFull(rxQueue[f])])]
           /\ rxQueue' = [rxQueue EXCEPT ![f] = added.q]
           /\ rxSem' = [rxSem EXCEPT ![f] =
                           IF RxIsrReleases(added.ok, isAddedToLast)
                           THEN ReleaseFromInterrupt(@, RxSemMaximum)
                           ELSE @]
    /\ hwFifo' = [hwFifo EXCEPT ![f] = ReleaseOutput(@)]
    /\ UNCHANGED <<rflm, rxMutex, rxPc, rxFifoOf, rxMsg, rxRes, arrived,
                   rxDelivered, rxServed, rxSpurious>>
    /\ UNCHANGED nonRxVars

\* CanResourceRxFifo::start entered with FMPx == 0: RFxR is read and the
\* handler returns.  The vector is also raised by RFxR.FULL and RFxR.FOVR,
\* which initialize enables in IER and which stay set until software writes
\* 1 to them.
RxIsrEmpty(f) ==
    /\ Len(hwFifo[f]) = 0
    /\ rxIdleIsr[f] < MaxIdleIsr
    /\ rxIdleIsr' = [rxIdleIsr EXCEPT ![f] = @ + 1]
    /\ UNCHANGED <<txVars, rxVars, devVars, filterVars, codecVars, optVars,
                   sceVars, pollVars>>

\* isConstructed() of the CanResourceRxFifo of index f
FifoConstructed(f) == IF f = 0 THEN engine.fifo0 ELSE engine.fifo1

\* CanResource::receive(message, fifo) entered by consumer t and dispatched
\* by rx_.receive to the FIFO: when that FIFO is constructed the call goes on
\* to sem_.acquire(), otherwise it returns false.
RxCall(t, f) ==
    /\ DeviceExists
    /\ rxPc[t] = "idle"
    /\ rxFifoOf' = [rxFifoOf EXCEPT ![t] = f]
    /\ IF FifoConstructed(f)
       THEN /\ rxPc' = [rxPc EXCEPT ![t] = "acquire"]
            /\ rxRes' = [rxRes EXCEPT ![t] = "none"]
       ELSE /\ rxRes' = [rxRes EXCEPT ![t] = "false"]
            /\ UNCHANGED rxPc
    /\ UNCHANGED <<rflm, rxQueue, rxSem, rxMutex, rxMsg, hwFifo, arrived,
                   rxLog, rxDelivered, rxServed, rxSpurious>>
    /\ UNCHANGED nonRxVars

\* sem_.acquire(): blocks while no permit is free.
RxAcquire(t) ==
    /\ rxPc[t] = "acquire"
    /\ rxSem[rxFifoOf[t]] > 0
    /\ rxSem' = [rxSem EXCEPT ![rxFifoOf[t]] = @ - 1]
    /\ rxPc' = [rxPc EXCEPT ![t] = "lock"]
    /\ UNCHANGED <<rflm, rxQueue, rxMutex, rxFifoOf, rxMsg, rxRes, hwFifo,
                   arrived, rxLog, rxDelivered, rxServed, rxSpurious>>
    /\ UNCHANGED nonRxVars

\* lib::Guard<> const guard(mutex_)
RxLock(t) ==
    /\ rxPc[t] = "lock"
    /\ rxMutex[rxFifoOf[t]] = NoThread
    /\ rxMutex' = [rxMutex EXCEPT ![rxFifoOf[t]] = t]
    /\ rxPc' = [rxPc EXCEPT ![t] = "peek"]
    /\ UNCHANGED <<rflm, rxQueue, rxSem, rxFifoOf, rxMsg, rxRes, hwFifo,
                   arrived, rxLog, rxDelivered, rxServed, rxSpurious>>
    /\ UNCHANGED nonRxVars

\* Variant of RxPeek: the newest entry of the queue is copied to *message.
RxPeek_Newest(t) ==
    /\ rxPc[t] = "peek"
    /\ LET f == rxFifoOf[t]
       IN  IF ~FifoIsEmpty(rxQueue[f])
           THEN /\ rxMsg' = [rxMsg EXCEPT ![t] = rxQueue[f][Len(rxQueue[f])]]
                /\ rxServed' = [rxServed EXCEPT ![f] = @ + 1]
                /\ rxPc' = [rxPc EXCEPT ![t] = "remove"]
                /\ UNCHANGED <<rxMutex, rxRes, rxSpurious>>
           ELSE /\ rxRes' = [rxRes EXCEPT ![t] = "false"]
                /\ rxSpurious' = [rxSpurious EXCEPT ![f] = TRUE]
                /\ rxMutex' = [rxMutex EXCEPT ![f] = NoThread]
                /\ rxPc' = [rxPc EXCEPT ![t] = "idle"]
                /\ UNCHANGED <<rxMsg, rxServed>>
    /\ UNCHANGED <<rflm, rxQueue, rxSem, rxFifoOf, hwFifo, arrived, rxLog,
                   rxDelivered>>
    /\ UNCHANGED nonRxVars

\* if( !fifo_.isEmpty() ) *message = fifo_.peek();  otherwise return false
RxPeek(t) ==
    /\ rxPc[t] = "peek"
    /\ LET f == rxFifoOf[t]
       IN  IF ~FifoIsEmpty(rxQueue[f])
           THEN /\ rxMsg' = [rxMsg EXCEPT ![t] = FifoPeek(rxQueue[f])]
                /\ rxServed' = [rxServed EXCEPT ![f] = @ + 1]
                /\ rxPc' = [rxPc EXCEPT ![t] = "remove"]
                /\ UNCHANGED <<rxMutex, rxRes, rxSpurious>>
           ELSE /\ rxRes' = [rxRes EXCEPT ![t] = "false"]
                /\ rxSpurious' = [rxSpurious EXCEPT ![f] = TRUE]
                /\ rxMutex' = [rxMutex EXCEPT ![f] = NoThread]
                /\ rxPc' = [rxPc EXCEPT ![t] = "idle"]
                /\ UNCHANGED <<rxMsg, rxServed>>
    /\ UNCHANGED <<rflm, rxQueue, rxSem, rxFifoOf, hwFifo, arrived, rxLog,
                   rxDelivered>>
    /\ UNCHANGED nonRxVars

\* Variant of RxRemove: the call returns without fifo_.remove().
RxRemove_NoRemove(t) ==
    /\ rxPc[t] = "remove"
    /\ LET f == rxFifoOf[t]
       IN  /\ rxDelivered' = [rxDelivered EXCEPT ![f] = Append(@, rxMsg[t])]
           /\ rxMutex' = [rxMutex EXCEPT ![f] = NoThread]
    /\ rxRes' = [rxRes EXCEPT ![t] = "true"]
    /\ rxPc' = [rxPc EXCEPT ![t] = "idle"]
    /\ rxMsg' = [rxMsg EXCEPT ![t] = NoMsg]
    /\ UNCHANGED <<rflm, rxQueue, rxSem, rxFifoOf, hwFifo, arrived, rxLog,
                   rxServed, rxSpurious>>
    /\ UNCHANGED nonRxVars

\* fifo_.remove(); res = true; and the guard is released on return.  The
\* frame handed to the caller is recorded in rxDelivered.
RxRemove(t) ==
    /\ rxPc[t] = "remove"
    /\ LET f == rxFifoOf[t]
       IN  /\ rxQueue' = [rxQueue EXCEPT ![f] = FifoRemove(@)]
           /\ rxDelivered' = [rxDelivered EXCEPT ![f] = Append(@, rxMsg[t])]
           /\ rxMutex' = [rxMutex EXCEPT ![f] = NoThread]
    /\ rxRes' = [rxRes EXCEPT ![t] = "true"]
    /\ rxPc' = [rxPc EXCEPT ![t] = "idle"]
    /\ rxMsg' = [rxMsg EXCEPT ![t] = NoMsg]
    /\ UNCHANGED <<rflm, rxSem, rxFifoOf, hwFifo, arrived, rxLog,
                   rxServed, rxSpurious>>
    /\ UNCHANGED nonRxVars

RxNext ==
    \/ \E f \in Fifos : HwRxArrive(f)
    \/ \E f \in Fifos : RxIsr(f)
    \/ \E t \in Receivers, f \in Fifos : RxCall(t, f)
    \/ \E t \in Receivers : RxAcquire(t)
    \/ \E t \in Receivers : RxLock(t)
    \/ \E t \in Receivers : RxPeek(t)
    \/ \E t \in Receivers : RxRemove(t)

SpecRx == Init /\ [][RxNext]_vars

\* The RX path with the invocations of the ISR that find no pending frame.
RxIsrNext ==
    \/ RxNext
    \/ \E f \in Fifos : RxIsrEmpty(f)

SpecRxIsr == Init /\ [][RxIsrNext]_vars

\* FIFO 0 under load: more frames than the hardware FIFO and the software
\* queue hold together, and one consumer.
RxLoadNext ==
    \/ HwRxFrame(0, MaxLoadFrames)
    \/ RxIsr(0)
    \/ RxCall(1, 0)
    \/ RxAcquire(1)
    \/ RxLock(1)
    \/ RxPeek(1)
    \/ RxRemove(1)

SpecRxLoad == Init /\ [][RxLoadNext]_vars

\* Traffic on FIFO 0 only: every filter bank is assigned to FIFO 0 and the
\* consumers receive from FIFO 0.
RxNextFifo0 ==
    \/ HwRxArrive(0)
    \/ RxIsr(0)
    \/ \E t \in Receivers : RxCall(t, 0)
    \/ \E t \in Receivers : RxAcquire(t)
    \/ \E t \in Receivers : RxLock(t)
    \/ \E t \in Receivers : RxPeek(t)
    \/ \E t \in Receivers : RxRemove(t)

\* Scheduling assumed for progress claims on the RX path: a pending RX
\* interrupt is serviced, a running consumer goes on, and the kernel serves
\* the waiters of the semaphore and of the mutex in turn.
RxFairness ==
    /\ WF_vars(RxIsr(0))
    /\ \A t \in Receivers : SF_vars(RxAcquire(t))
    /\ \A t \in Receivers : SF_vars(RxLock(t))
    /\ \A t \in Receivers : WF_vars(RxPeek(t))
    /\ \A t \in Receivers : WF_vars(RxRemove(t))

FairSpecRx == Init /\ [][RxNextFifo0]_vars /\ RxFairness

\* Scheduling assumed for progress claims on the TX path: the controller
\* completes every pending request, a pending TX interrupt is serviced, a
\* running producer goes on, and the kernel serves the waiters of the
\* semaphore and of the mutex in turn.
TxFairness ==
    /\ \A i \in Mailboxes : WF_vars(HwTxComplete(i, "TXOK"))
    /\ WF_vars(TxIsr)
    /\ \A p \in Producers : SF_vars(TxAcquire(p))
    /\ \A p \in Producers : SF_vars(TxLock(p))
    /\ \A p \in Producers : WF_vars(TxScan(p))

FairSpecTx == Init /\ [][TxNext]_vars /\ TxFairness

\* ======================================================= filter programming

\* Variant of FilterIndexValid: the comparison admits the index 14.
FilterIndexValid_OffByOne(index) == index <= NUMBER_OF_FILTER_GROUPS

\* filter.index < Can::RxFilter::NUMBER_OF_FILTER_GROUPS
FilterIndexValid(index) == index < NUMBER_OF_FILTER_GROUPS

\* CanResource::setReceiveFilter entered by caller c and passed to
\* rx_.setReceiveFilter: a constructed rx_ and a valid index lead to the
\* guard, anything else returns false.
FilterCall(c, flt) ==
    /\ DeviceExists
    /\ fPc[c] = "idle"
    /\ fArg' = [fArg EXCEPT ![c] = flt]
    /\ IF engine.rx /\ FilterIndexValid(flt.index)
       THEN /\ fPc' = [fPc EXCEPT ![c] = "lock"]
            /\ fRes' = [fRes EXCEPT ![c] = "none"]
       ELSE /\ fRes' = [fRes EXCEPT ![c] = "false"]
            /\ UNCHANGED fPc
    /\ UNCHANGED <<filterRegs, filterMutex, fLocal, bankCfg>>
    /\ UNCHANGED nonFilterVars

\* Variant of FilterLock: the guard is entered whoever owns the mutex.
FilterLock_NoMutex(c) ==
    /\ fPc[c] = "lock"
    /\ filterMutex' = c
    /\ fLocal' = [fLocal EXCEPT ![c] =
                     [fa1r |-> fa1r, fm1r |-> fm1r, fs1r |-> fs1r,
                      ffa1r |-> ffa1r]]
    /\ fPc' = [fPc EXCEPT ![c] = "finit1"]
    /\ UNCHANGED <<filterRegs, fArg, fRes, bankCfg>>
    /\ UNCHANGED nonFilterVars

\* lib::Guard<> const guard(mutex_), then the lib::Register objects are
\* constructed, each with a copy of the register it stands for.
FilterLock(c) ==
    /\ fPc[c] = "lock"
    /\ filterMutex = NoThread
    /\ filterMutex' = c
    /\ fLocal' = [fLocal EXCEPT ![c] =
                     [fa1r |-> fa1r, fm1r |-> fm1r, fs1r |-> fs1r,
                      ffa1r |-> ffa1r]]
    /\ fPc' = [fPc EXCEPT ![c] = "finit1"]
    /\ UNCHANGED <<filterRegs, fArg, fRes, bankCfg>>
    /\ UNCHANGED nonFilterVars

\* fmr.bit().finit = 1; fmr.commit();
FilterFinitSet(c) ==
    /\ fPc[c] = "finit1"
    /\ fmrFinit' = 1
    /\ fPc' = [fPc EXCEPT ![c] = "deactivate"]
    /\ UNCHANGED <<fa1r, fm1r, fs1r, ffa1r, firx, filterMutex, fArg, fLocal,
                   fRes, bankCfg>>
    /\ UNCHANGED nonFilterVars

\* lib::Register::clearBit and setBit on the copy of a register
ClearBit(value, index) == value \ {index}

SetBit(value, index) == value \cup {index}

\* Variant of FilterDeactivate: every bank is deactivated.
FilterDeactivate_AllBanks(c) ==
    /\ fPc[c] = "deactivate"
    /\ fLocal' = [fLocal EXCEPT ![c].fa1r = {}]
    /\ fa1r' = {}
    /\ fPc' = [fPc EXCEPT ![c] = "mode"]
    /\ UNCHANGED <<fmrFinit, fm1r, fs1r, ffa1r, firx, filterMutex, fArg, fRes,
                   bankCfg>>
    /\ UNCHANGED nonFilterVars

\* fa1r.clearBit( filter.index ); fa1r.commit();
FilterDeactivate(c) ==
    /\ fPc[c] = "deactivate"
    /\ LET value == ClearBit(fLocal[c].fa1r, fArg[c].index)
       IN  /\ fLocal' = [fLocal EXCEPT ![c].fa1r = value]
           /\ fa1r' = value
    /\ fPc' = [fPc EXCEPT ![c] = "mode"]
    /\ UNCHANGED <<fmrFinit, fm1r, fs1r, ffa1r, firx, filterMutex, fArg, fRes,
                   bankCfg>>
    /\ UNCHANGED nonFilterVars

\* The mode bit: cleared for MODE_IDMASK, set for MODE_IDLIST; fm1r.commit();
FilterMode(c) ==
    /\ fPc[c] = "mode"
    /\ LET value == IF fArg[c].mode = "IDMASK"
                    THEN ClearBit(fLocal[c].fm1r, fArg[c].index)
                    ELSE IF fArg[c].mode = "IDLIST"
                         THEN SetBit(fLocal[c].fm1r, fArg[c].index)
                         ELSE fLocal[c].fm1r
       IN  /\ fLocal' = [fLocal EXCEPT ![c].fm1r = value]
           /\ fm1r' = value
    /\ fPc' = [fPc EXCEPT ![c] = "scale"]
    /\ UNCHANGED <<fmrFinit, fa1r, fs1r, ffa1r, firx, filterMutex, fArg, fRes,
                   bankCfg>>
    /\ UNCHANGED nonFilterVars

\* The scale bit: cleared for SCALE_16BIT, set for SCALE_32BIT; fs1r.commit();
FilterScale(c) ==
    /\ fPc[c] = "scale"
    /\ LET value == IF fArg[c].scale = "16BIT"
                    THEN ClearBit(fLocal[c].fs1r, fArg[c].index)
                    ELSE IF fArg[c].scale = "32BIT"
                         THEN SetBit(fLocal[c].fs1r, fArg[c].index)
                         ELSE fLocal[c].fs1r
       IN  /\ fLocal' = [fLocal EXCEPT ![c].fs1r = value]
           /\ fs1r' = value
    /\ fPc' = [fPc EXCEPT ![c] = "fifo"]
    /\ UNCHANGED <<fmrFinit, fa1r, fm1r, ffa1r, firx, filterMutex, fArg, fRes,
                   bankCfg>>
    /\ UNCHANGED nonFilterVars

\* The FIFO bit: cleared for FIFO_0, set for FIFO_1; ffa1r.commit();
FilterFifo(c) ==
    /\ fPc[c] = "fifo"
    /\ LET value == IF fArg[c].fifo = 0
                    THEN ClearBit(fLocal[c].ffa1r, fArg[c].index)
                    ELSE IF fArg[c].fifo = 1
                         THEN SetBit(fLocal[c].ffa1r, fArg[c].index)
                         ELSE fLocal[c].ffa1r
       IN  /\ fLocal' = [fLocal EXCEPT ![c].ffa1r = value]
           /\ ffa1r' = value
    /\ fPc' = [fPc EXCEPT ![c] = "bank"]
    /\ UNCHANGED <<fmrFinit, fa1r, fm1r, fs1r, firx, filterMutex, fArg, fRes,
                   bankCfg>>
    /\ UNCHANGED nonFilterVars

\* reg_->firx[filter.index][0] and [1] are written from the filters union.
FilterBank(c) ==
    /\ fPc[c] = "bank"
    /\ firx' = [firx EXCEPT ![fArg[c].index] = fArg[c].words]
    /\ fPc' = [fPc EXCEPT ![c] = "activate"]
    /\ UNCHANGED <<fmrFinit, fa1r, fm1r, fs1r, ffa1r, filterMutex, fArg, fLocal,
                   fRes, bankCfg>>
    /\ UNCHANGED nonFilterVars

\* fa1r.setBit( filter.index ); fa1r.commit();
FilterActivate(c) ==
    /\ fPc[c] = "activate"
    /\ LET value == SetBit(fLocal[c].fa1r, fArg[c].index)
       IN  /\ fLocal' = [fLocal EXCEPT ![c].fa1r = value]
           /\ fa1r' = value
    /\ fPc' = [fPc EXCEPT ![c] = "finit0"]
    /\ UNCHANGED <<fmrFinit, fm1r, fs1r, ffa1r, firx, filterMutex, fArg, fRes,
                   bankCfg>>
    /\ UNCHANGED nonFilterVars

\* fmr.bit().finit = 0; fmr.commit(); res = true; and the guard is released
\* on return.
FilterFinitClear(c) ==
    /\ fPc[c] = "finit0"
    /\ fmrFinit' = 0
    /\ fRes' = [fRes EXCEPT ![c] = "true"]
    /\ filterMutex' = NoThread
    /\ fLocal' = [fLocal EXCEPT ![c] = NoLocal]
    /\ bankCfg' = [bankCfg EXCEPT ![fArg[c].index] = fArg[c]]
    /\ fPc' = [fPc EXCEPT ![c] = "idle"]
    /\ UNCHANGED <<fa1r, fm1r, fs1r, ffa1r, firx, fArg>>
    /\ UNCHANGED nonFilterVars

\* One step of caller c between the guard and the return.
FilterStep(c) ==
    \/ FilterFinitSet(c)
    \/ FilterDeactivate(c)
    \/ FilterMode(c)
    \/ FilterScale(c)
    \/ FilterFifo(c)
    \/ FilterBank(c)
    \/ FilterActivate(c)
    \/ FilterFinitClear(c)

FilterNext ==
    \/ \E c \in FilterCallers, flt \in FilterInputs : FilterCall(c, flt)
    \/ \E c \in FilterCallers : FilterLock(c)
    \/ \E c \in FilterCallers : FilterStep(c)

SpecFilter == InitCreated /\ [][FilterNext]_vars

\* A frame that matches bank j alone reaches the controller: an active bank
\* passes it to the FIFO that FFA1R assigns to the bank, an inactive bank
\* lets it go by.
HwRxFiltered(j) ==
    /\ j \in fa1r
    /\ HwRxArrive(IF j \in ffa1r THEN 1 ELSE 0)

\* One caller of setReceiveFilter that reprograms bank 0, next to the traffic
\* of both FIFOs and one consumer.
FilterRxNext ==
    \/ \E flt \in FilterInputs : flt.index = 0 /\ FilterCall(1, flt)
    \/ FilterLock(1)
    \/ FilterStep(1)
    \/ \E j \in Banks : HwRxFiltered(j)
    \/ \E f \in Fifos : RxIsr(f)
    \/ \E f \in Fifos : RxCall(1, f)
    \/ RxAcquire(1)
    \/ RxLock(1)
    \/ RxPeek(1)
    \/ RxRemove(1)

SpecFilterRx == Init /\ [][FilterRxNext]_vars

\* Two producers, two consumers of FIFO 0 and two callers of
\* setReceiveFilter side by side.  The bus takes no frame of the device, so
\* the written mailboxes stay pending and the producers come to wait for a
\* permit; one frame arrives, so a consumer is served and the other waits.
ThreadsNext ==
    \/ \E p \in Producers : TxCall(p)
    \/ \E p \in Producers : TxAcquire(p)
    \/ \E p \in Producers : TxLock(p)
    \/ \E p \in Producers : TxScan(p)
    \/ HwRxFrame(0, 1)
    \/ RxIsr(0)
    \/ \E t \in Receivers : RxCall(t, 0)
    \/ \E t \in Receivers : RxAcquire(t)
    \/ \E t \in Receivers : RxLock(t)
    \/ \E t \in Receivers : RxPeek(t)
    \/ \E t \in Receivers : RxRemove(t)
    \/ \E c \in FilterCallers :
          FilterCall(c, Filter(0, 0, "IDMASK", "32BIT", 0, 0))
    \/ \E c \in FilterCallers : FilterLock(c)
    \/ \E c \in FilterCallers : FilterStep(c)

SpecThreads == Init /\ [][ThreadsNext]_vars

\* ========================================================= device lifecycle

\* No caller is inside transmit, receive or setReceiveFilter.
Quiescent ==
    /\ \A p \in Producers : txPc[p] = "idle"
    /\ \A t \in Receivers : rxPc[t] = "idle"
    /\ \A c \in FilterCallers : fPc[c] = "idle"

\* Can::create(config): getController() yields the controller unless its
\* construction failed, CanController::createResource allocates the device
\* from the driver heap, and the constructor of CanResource starts with its
\* members.  Without controller or memory create returns NULLPTR.
Create(number, clock, options, controllerOk, allocated) ==
    /\ devPc = "none"
    /\ IF controllerOk /\ allocated
       THEN /\ cfgNumber' = number
            /\ cpuClock' = clock
            /\ cfgMcr' = options
            /\ createRes' = "pending"
            /\ devPc' = "tx_"
       ELSE /\ createRes' = "null"
            /\ devPc' = "nodevice"
            /\ UNCHANGED <<cfgNumber, cpuClock, cfgMcr>>
    /\ UNCHANGED <<irq, engine, can1en, mcr, inak, ier, timeout, devLog,
                   pollExpired, mcrOpt>>
    /\ UNCHANGED nonDevVars

\* CanResourceTx::CanResourceTx, construct and initialize: the interrupt
\* controller returns a resource (outcome "ok"), NULLPTR ("null") or a
\* resource that is not constructed ("unconstructed"); only the first is
\* enabled, and only with it tx_ is constructed.
ConstructTx(outcome) ==
    /\ devPc = "tx_"
    /\ irq' = [irq EXCEPT !["tx"] =
                  CASE outcome = "ok" -> "enabled"
                    [] outcome = "null" -> "null"
                    [] OTHER -> "disabled"]
    /\ engine' = [engine EXCEPT !.tx = (outcome = "ok")]
    /\ devLog' = IF outcome = "ok" THEN Append(devLog, "irq tx") ELSE devLog
    /\ devPc' = "fifo0_"
    /\ UNCHANGED <<cfgNumber, cpuClock, createRes, can1en, mcr, inak, ier,
                   timeout, pollExpired>>
    /\ UNCHANGED optVars
    /\ UNCHANGED nonDevVars

\* CanResourceRxFifo::CanResourceRxFifo, construct and initializeInterrupt of
\* FIFO f: the resource is enabled when it is not NULLPTR.  After fifo1_,
\* CanResourceRx::construct requires both FIFOs.
ConstructFifo(f, created) ==
    /\ devPc = (IF f = 0 THEN "fifo0_" ELSE "fifo1_")
    /\ LET h == IF f = 0 THEN "rx0" ELSE "rx1"
       IN  /\ irq' = [irq EXCEPT ![h] = IF created THEN "enabled" ELSE "null"]
           /\ devLog' = IF created THEN Append(devLog, "irq " \o h) ELSE devLog
    /\ engine' = IF f = 0
                 THEN [engine EXCEPT !.fifo0 = created]
                 ELSE [engine EXCEPT !.fifo1 = created,
                                     !.rx = engine.fifo0 /\ created]
    /\ devPc' = (IF f = 0 THEN "fifo1_" ELSE "sce_")
    /\ UNCHANGED <<cfgNumber, cpuClock, createRes, can1en, mcr, inak, ier,
                   timeout, pollExpired>>
    /\ UNCHANGED optVars
    /\ UNCHANGED nonDevVars

\* CanResourceStatus::CanResourceStatus, construct and initializeInterrupt
ConstructSce(created) ==
    /\ devPc = "sce_"
    /\ irq' = [irq EXCEPT !["sce"] = IF created THEN "enabled" ELSE "null"]
    /\ engine' = [engine EXCEPT !.sce = created]
    /\ devLog' = IF created THEN Append(devLog, "irq sce") ELSE devLog
    /\ devPc' = "construct"
    /\ UNCHANGED <<cfgNumber, cpuClock, createRes, can1en, mcr, inak, ier,
                   timeout, pollExpired>>
    /\ UNCHANGED optVars
    /\ UNCHANGED nonDevVars

\* CanResource::isNumberValid
IsNumberValid == cfgNumber = NUMBER_CAN1

\* Variant of CheckClocks: every cpu clock is accepted.
CheckClocks_AnyClock == TRUE

\* CanResource::checkClocks
CheckClocks == cpuClock = CPU_CLOCK_72MHZ

\* CanResource::construct up to the first wait of initialize: the number,
\* tx_ and rx_ are checked, then initialize checks the clock, enables the
\* clock gate, clears SLEEP and sets INRQ.  A failed check ends the
\* constructor with setConstructed(false).
Construct ==
    /\ devPc = "construct"
    /\ IF IsNumberValid /\ engine.tx /\ engine.rx /\ CheckClocks
       THEN /\ can1en' = 1
            /\ mcr' = [sleep |-> 0, inrq |-> 1]
            /\ devLog' = devLog \o <<"CAN1EN=1", "MCR.SLEEP=0", "MCR.INRQ=1">>
            /\ devPc' = "poll1"
       ELSE /\ devPc' = "built"
            /\ UNCHANGED <<can1en, mcr, devLog>>
    /\ UNCHANGED <<cfgNumber, cpuClock, createRes, irq, engine, inak, ier,
                   timeout, pollExpired>>
    /\ UNCHANGED optVars
    /\ UNCHANGED nonDevVars

\* Numbers of reads of MSR that do not show the awaited INAK before the
\* controller acknowledges: at once, after one read, at the last two reads
\* of the loop, and not within the loop.
PollDelays == {0, 1, POLL_TIMEOUT - 1, POLL_TIMEOUT, POLL_TIMEOUT + 1}

\* The wait loop of initialize started with timeout = 0x0000FFFF:
\*     while( true ) { if( inak == awaited ) break;
\*                     if( timeout-- == 0 ) break; }
\* Each read that does not show the awaited value costs one decrement.  When
\* the value shows after at most 0xFFFF such reads the loop ends at the first
\* test, with timeout lowered by their number; otherwise the loop ends at the
\* second test when timeout is 0, and the decrement of that test wraps.
PollInak(delay) ==
    IF delay <= POLL_TIMEOUT
    THEN [timeout |-> U32(0, POLL_TIMEOUT - delay), seen |-> TRUE]
    ELSE [timeout |-> Dec32(U32(0, 0)), seen |-> FALSE]

\* if( timeout == 0 ) break;  after a wait loop
PollFailed(t) == IsZero32(t)

\* The wait for INAK == 1 of initialize.
Poll1(delay) ==
    /\ devPc = "poll1"
    /\ LET r == PollInak(delay)
       IN  /\ timeout' = r.timeout
           /\ inak' = IF r.seen THEN 1 ELSE inak
           /\ pollExpired' = (pollExpired \/ ~r.seen)
           /\ devLog' = Append(devLog, IF r.seen THEN "poll INAK==1"
                                                 ELSE "poll expired")
           /\ devPc' = IF PollFailed(r.timeout) THEN "built" ELSE "configure"
    /\ UNCHANGED <<cfgNumber, cpuClock, createRes, irq, engine, can1en, mcr,
                   ier>>
    /\ UNCHANGED optVars
    /\ UNCHANGED nonDevVars

\* initialize, the MCR options: txfp, rflm and dbf are taken from the
\* config, nart, awum, abom and ttcm are written as 0.
McrOptionsOf(options) ==
    [txfp |-> options.txfp, rflm |-> rflm, nart |-> 0, awum |-> 0,
     abom |-> 0, ttcm |-> 0, dbf |-> options.dbf]

\* initialize between the two waits: the MCR options, DBG_CR, BTR and the
\* bit rate are written, then INRQ is cleared.
Configure ==
    /\ devPc = "configure"
    /\ mcrOpt' = McrOptionsOf(cfgMcr)
    /\ mcr' = [mcr EXCEPT !.inrq = 0]
    /\ devLog' = devLog \o <<"MCR", "BTR", "MCR.INRQ=0">>
    /\ devPc' = "poll2"
    /\ UNCHANGED <<cfgNumber, cpuClock, createRes, irq, engine, can1en, inak,
                   ier, timeout, pollExpired, cfgMcr>>
    /\ UNCHANGED nonDevVars

\* The wait for INAK == 0 of initialize.  INAK that never rose shows the
\* awaited value at the first read.
Poll2(delay) ==
    /\ devPc = "poll2"
    /\ LET r == PollInak(IF inak = 0 THEN 0 ELSE delay)
       IN  /\ timeout' = r.timeout
           /\ inak' = IF r.seen THEN 0 ELSE inak
           /\ pollExpired' = (pollExpired \/ ~r.seen)
           /\ devLog' = Append(devLog, IF r.seen THEN "poll INAK==0"
                                                 ELSE "poll expired")
           /\ devPc' = IF PollFailed(r.timeout) THEN "built" ELSE "ier"
    /\ UNCHANGED <<cfgNumber, cpuClock, createRes, irq, engine, can1en, mcr,
                   ier>>
    /\ UNCHANGED optVars
    /\ UNCHANGED nonDevVars

\* The end of initialize and of the constructor: the IER bits are set and
\* setConstructed(true) follows.
EnableIer ==
    /\ devPc = "ier"
    /\ ier' = IerBits
    /\ engine' = [engine EXCEPT !.dev = TRUE]
    /\ devLog' = Append(devLog, "IER")
    /\ devPc' = "built"
    /\ UNCHANGED <<cfgNumber, cpuClock, createRes, irq, can1en, mcr, inak,
                   timeout, pollExpired>>
    /\ UNCHANGED optVars
    /\ UNCHANGED nonDevVars

\* CanController::createResource and Can::create after the constructor: a
\* device that is not constructed is deleted, a constructed one is returned.
CreateReturn ==
    /\ devPc = "built"
    /\ Quiescent
    /\ IF engine.dev
       THEN /\ createRes' = "handle"
            /\ devPc' = "alive"
       ELSE /\ devPc' = "deinitialize"
            /\ UNCHANGED createRes
    /\ UNCHANGED <<cfgNumber, cpuClock, irq, engine, can1en, mcr, inak, ier,
                   timeout, devLog, pollExpired>>
    /\ UNCHANGED optVars
    /\ UNCHANGED nonDevVars

\* The caller deletes the device it got from Can::create.
Drop ==
    /\ devPc = "alive"
    /\ Quiescent
    /\ devPc' = "deinitialize"
    /\ UNCHANGED <<cfgNumber, cpuClock, createRes, irq, engine, can1en, mcr,
                   inak, ier, timeout, devLog, pollExpired>>
    /\ UNCHANGED optVars
    /\ UNCHANGED nonDevVars

\* CanResource::deinitialize, the body of the destructor: the IER bits are
\* cleared and enableClock(false) gates the clock of CAN1 off.
Deinitialize ==
    /\ devPc = "deinitialize"
    /\ ier' = IF IsNumberValid THEN {} ELSE ier
    /\ can1en' = IF IsNumberValid THEN 0 ELSE can1en
    /\ devLog' = devLog \o <<"IER=0", "CAN1EN=0">>
    /\ devPc' = "~sce_"
    /\ UNCHANGED <<cfgNumber, cpuClock, createRes, irq, engine, mcr, inak,
                   timeout, pollExpired>>
    /\ UNCHANGED optVars
    /\ UNCHANGED nonDevVars

\* What a call of disable() through a handle that is NULLPTR may do: return,
\* or end the program in a fault.
NullCallOutcomes == {"returns", "halts"}

\* handle->disable() in a destructor, followed by the destructor at next.
DisableHandle(h, next, undefined) ==
    IF irq[h] # "null"
    THEN /\ irq' = [irq EXCEPT ![h] = "disabled"]
         /\ devPc' = next
    ELSE /\ devPc' = (IF undefined = "halts" THEN "halted" ELSE next)
         /\ UNCHANGED irq

\* CanResourceStatus::~CanResourceStatus
DestroySce(undefined) ==
    /\ devPc = "~sce_"
    /\ DisableHandle("sce", "~fifo1_", undefined)
    /\ UNCHANGED <<cfgNumber, cpuClock, createRes, engine, can1en, mcr, inak,
                   ier, timeout, devLog, pollExpired>>
    /\ UNCHANGED optVars
    /\ UNCHANGED nonDevVars

\* CanResourceRxFifo::~CanResourceRxFifo of fifo1_, then of fifo0_
DestroyFifo(f, undefined) ==
    /\ devPc = (IF f = 1 THEN "~fifo1_" ELSE "~fifo0_")
    /\ DisableHandle(IF f = 1 THEN "rx1" ELSE "rx0",
                     IF f = 1 THEN "~fifo0_" ELSE "~tx_", undefined)
    /\ UNCHANGED <<cfgNumber, cpuClock, createRes, engine, can1en, mcr, inak,
                   ier, timeout, devLog, pollExpired>>
    /\ UNCHANGED optVars
    /\ UNCHANGED nonDevVars

\* CanResourceTx::~CanResourceTx and deinitialize, the last destructor; a
\* create that deleted the device returns NULLPTR.
DestroyTx(undefined) ==
    /\ devPc = "~tx_"
    /\ DisableHandle("tx", "destroyed", undefined)
    /\ createRes' = IF devPc' = "destroyed" /\ createRes = "pending"
                    THEN "null" ELSE createRes
    /\ UNCHANGED <<cfgNumber, cpuClock, engine, can1en, mcr, inak, ier,
                   timeout, devLog, pollExpired>>
    /\ UNCHANGED optVars
    /\ UNCHANGED nonDevVars

\* The steps of construction and destruction after the entry of Can::create.
DevSteps ==
    \/ \E outcome \in {"ok", "null", "unconstructed"} : ConstructTx(outcome)
    \/ \E f \in Fifos, created \in BOOLEAN : ConstructFifo(f, created)
    \/ \E created \in BOOLEAN : ConstructSce(created)
    \/ Construct
    \/ \E delay \in PollDelays : Poll1(delay)
    \/ Configure
    \/ \E delay \in PollDelays : Poll2(delay)
    \/ EnableIer
    \/ CreateReturn
    \/ Drop
    \/ Deinitialize
    \/ \E undefined \in NullCallOutcomes : DestroySce(undefined)
    \/ \E f \in Fifos, undefined \in NullCallOutcomes : DestroyFifo(f, undefined)
    \/ \E undefined \in NullCallOutcomes : DestroyTx(undefined)

\* The life of one device, with one producer, one consumer and one caller
\* of setReceiveFilter using it whenever the object exists.  The config has
\* no option bit or every option bit set.
DevNext ==
    \/ \E number \in Numbers, clock \in CpuClocks, controllerOk \in BOOLEAN,
          allocated \in BOOLEAN,
          options \in {McrConfig(0, 0, 0, 0, 0, 0), McrConfig(1, 1, 1, 1, 1, 1)} :
          Create(number, clock, options, controllerOk, allocated)
    \/ DevSteps
    \/ TxCall(1)
    \/ TxAcquire(1)
    \/ TxLock(1)
    \/ TxScan(1)
    \/ \E f \in Fifos : RxCall(1, f)
    \/ FilterCall(1, Filter(0, 0, "IDMASK", "32BIT", 0, 0))
    \/ FilterLock(1)
    \/ FilterStep(1)

SpecDev == InitBoot /\ [][DevNext]_vars

\* Construction and destruction alone, for every combination of the option
\* bits of the config.
CtorNext ==
    \/ \E number \in Numbers, clock \in CpuClocks, options \in McrConfigs :
          Create(number, clock, options, TRUE, TRUE)
    \/ DevSteps

SpecCtor == InitBoot /\ [][CtorNext]_vars

\* ------------------------------------------------ the wait loops, by reads

\* The constructor at the start of a wait loop of initialize, timeout just
\* set to 0x0000FFFF: the wait for INAK == 1 after INRQ = 1, or the wait for
\* INAK == 0 after the options were written and INRQ was cleared.
DevPolling(pc) ==
    /\ devPc = pc
    /\ cfgNumber = NUMBER_CAN1
    /\ cpuClock = CPU_CLOCK_72MHZ
    /\ createRes = "pending"
    /\ irq = [h \in Sources |-> "enabled"]
    /\ engine = [tx |-> TRUE, fifo0 |-> TRUE, fifo1 |-> TRUE, rx |-> TRUE,
                 sce |-> TRUE, dev |-> FALSE]
    /\ can1en = 1
    /\ mcr = [sleep |-> 0, inrq |-> IF pc = "poll1" THEN 1 ELSE 0]
    /\ inak = (IF pc = "poll1" THEN 0 ELSE 1)
    /\ ier = {}
    /\ timeout = U32(0, POLL_TIMEOUT)
    /\ devLog = SubSeq(ConstructedLog, 1, IF pc = "poll1" THEN 7 ELSE 11)
    /\ pollExpired = FALSE
    /\ cfgMcr = McrConfig(0, 0, 0, 0, 0, 0)
    /\ mcrOpt = (IF pc = "poll1"
                 THEN [txfp |-> 0, rflm |-> 0, nart |-> 0, awum |-> 0,
                       abom |-> 0, ttcm |-> 0, dbf |-> 1]
                 ELSE McrOptionsOf(cfgMcr))
    /\ sceStatus = {}
    /\ sceServed = 0
    /\ msrReads = 0

\* Variant of PollExpires: the countdown is not tested.
PollExpires_Never(t) == FALSE

\* if( timeout-- == 0 ): the test is made on the value before the decrement.
PollExpires(t) == IsZero32(t)

\* One turn of a wait loop: MSR is read and shows INAK = shown.  The awaited
\* value ends the loop with timeout as it is; another value costs one
\* decrement and ends the loop when timeout was 0.  The test
\* if( timeout == 0 ) follows the loop.
PollRead(shown) ==
    /\ devPc \in {"poll1", "poll2"}
    /\ msrReads' = msrReads + 1
    /\ inak' = shown
    /\ LET awaited == IF devPc = "poll1" THEN 1 ELSE 0
           seen == shown = awaited
           ended == seen \/ PollExpires(timeout)
           after == IF seen THEN timeout ELSE Dec32(timeout)
       IN  /\ timeout' = after
           /\ pollExpired' = (pollExpired \/ (ended /\ ~seen))
           /\ devLog' =
                 IF ~ended THEN devLog
                 ELSE Append(devLog,
                             IF ~seen THEN "poll expired"
                             ELSE IF awaited = 1 THEN "poll INAK==1"
                                                 ELSE "poll INAK==0")
           /\ devPc' =
                 IF ~ended THEN devPc
                 ELSE IF PollFailed(after) THEN "built"
                 ELSE IF devPc = "poll1" THEN "configure" ELSE "ier"
    /\ UNCHANGED <<cfgNumber, cpuClock, createRes, irq, engine, can1en, mcr,
                   ier>>
    /\ UNCHANGED optVars
    /\ UNCHANGED <<txVars, rxVars, filterVars, codecVars, sceVars, idleVars>>

PollNext == \E shown \in {0, 1} : PollRead(shown)

InitPoll ==
    /\ TxInit /\ RxInit /\ FilterReset /\ CodecIdle
    /\ \E pc \in {"poll1", "poll2"} : DevPolling(pc)

SpecPoll == InitPoll /\ [][PollNext]_vars

\* ================================================= Status change interrupt

\* What the controller reports: the error warning, error passive and bus-off
\* states and a last error code in ESR, each latching MSR.ERRI, and the
\* wake-up and sleep acknowledge, latching MSR.WKUI and MSR.SLAKI.
SceEvents == {"EWGF", "EPVF", "BOFF", "LEC", "WKUI", "SLAKI"}

HwSceEvent(event) ==
    /\ event \notin sceStatus
    /\ sceStatus' = sceStatus \cup
                       (IF event \in {"WKUI", "SLAKI"} THEN {event}
                                                       ELSE {event, "ERRI"})
    /\ UNCHANGED sceServed
    /\ UNCHANGED nonSceVars

\* The SCE interrupt request: a latched MSR flag whose enable bit is set in
\* IER, with the interrupt handle enabled.
SceIrq ==
    /\ irq["sce"] = "enabled"
    /\ \/ "ERRI" \in sceStatus /\ "errie" \in ier
       \/ "WKUI" \in sceStatus /\ "wkuie" \in ier
       \/ "SLAKI" \in sceStatus /\ "slkie" \in ier

\* CanResourceStatus::start: ESR and MSR are read into two lib::Register
\* objects; nothing is written.
StatusStart ==
    /\ SceIrq
    /\ sceServed < MaxSceServed
    /\ sceServed' = sceServed + 1
    /\ UNCHANGED sceStatus
    /\ UNCHANGED nonSceVars

SceNext ==
    \/ \E event \in SceEvents : HwSceEvent(event)
    \/ StatusStart

SpecSce == Init /\ [][SceNext]_vars


\* ================================================================== Frames

\* The field of width bits at position pos of a 16-bit half.
GetBits(half, pos, width) == (half \div Pow2(pos)) % Pow2(width)

\* Assignment to a bit-field: the value is cut to the width of the field,
\* the other bits of the half stay.
SetBits(half, pos, width, value) ==
    half - GetBits(half, pos, width) * Pow2(pos)
         + (value % Pow2(width)) * Pow2(pos)

\* CAN_TIxR and CAN_RIxR: bit 0 TXRQ (reserved in RIxR), bit 1 RTR, bit 2
\* IDE, bits 3..20 EXID, bits 21..31 STID.
TXRQ_POS == 0

RTR_POS == 1

IDE_POS == 2

EXID_POS == 3

\* Bits of EXID in the low half, and position of STID in the high half.
EXID_LOW_WIDTH == HALF_WIDTH - EXID_POS

STID_POS == EXID_POS + EXID_WIDTH - HALF_WIDTH

\* CAN_TDTxR and CAN_RDTxR: bits 0..3 DLC.
DLC_WIDTH == 4

\* Assignment to a one-bit field of the low half, and its value.
SetFlag(r, pos, v) == Word(r.hi, SetBits(r.lo, pos, 1, v))

GetFlag(r, pos) == GetBits(r.lo, pos, 1)

SetExid(r, v) ==
    Word(SetBits(r.hi, 0, STID_POS, (v % Pow2(EXID_WIDTH)) \div Pow2(EXID_LOW_WIDTH)),
         SetBits(r.lo, EXID_POS, EXID_LOW_WIDTH, v))

SetStid(r, v) == Word(SetBits(r.hi, STID_POS, STID_WIDTH, v), r.lo)

SetDlc(r, v) == Word(r.hi, SetBits(r.lo, 0, DLC_WIDTH, v))

GetExid(r) ==
    GetBits(r.lo, EXID_POS, EXID_LOW_WIDTH)
        + GetBits(r.hi, 0, STID_POS) * Pow2(EXID_LOW_WIDTH)

GetStid(r) == GetBits(r.hi, STID_POS, STID_WIDTH)

GetDlc(r) == GetBits(r.lo, 0, DLC_WIDTH)

\* message.data.v32[k] of the little-endian union, k = 0 or 1.
V32(data, k) ==
    Word(data[4 * k + 3] + data[4 * k + 4] * Pow2(BYTE_WIDTH),
         data[4 * k + 1] + data[4 * k + 2] * Pow2(BYTE_WIDTH))

\* message.data.v8 after v32[0] = w0 and v32[1] = w1.
V8(w0, w1) ==
    [i \in 1..DATA_BYTES |->
        LET w == IF i <= 4 THEN w0 ELSE w1
            n == (i - 1) % 4
            half == IF n < 2 THEN w.lo ELSE w.hi
        IN  GetBits(half, (n % 2) * BYTE_WIDTH, BYTE_WIDTH)]

\* Variant of TixrOf: the EXID field is cleared for an extended frame too.
TixrOf_ClearExid(message, tixr) ==
    LET r0 == SetFlag(tixr, TXRQ_POS, 0)
        r1 == SetFlag(r0, RTR_POS, IF message.rtr THEN 1 ELSE 0)
        r2 == IF ~message.ide
              THEN SetStid(SetExid(SetFlag(r1, IDE_POS, 0), 0), message.id.stid)
              ELSE SetStid(SetExid(SetFlag(r1, IDE_POS, 1), 0), message.id.stid)
    IN  r2

\* CanResourceTxMailbox::transmit, the second commit of TIxR: the fetched
\* register with the RTR, IDE, EXID and STID fields of the message.
TixrOf(message, tixr) ==
    LET r1 == SetFlag(tixr, RTR_POS, IF message.rtr THEN 1 ELSE 0)
        r2 == IF ~message.ide
              THEN SetStid(SetExid(SetFlag(r1, IDE_POS, 0), 0), message.id.stid)
              ELSE SetStid(SetExid(SetFlag(r1, IDE_POS, 1), message.id.exid),
                           message.id.stid)
    IN  r2

\* The commit that follows each position of transmit.
TransmitStep(pc) ==
    CASE pc = "idle" -> "txrq0"
      [] pc = "txrq0" -> "id"
      [] pc = "id" -> "dlc"
      [] pc = "dlc" -> "tdl"
      [] pc = "tdl" -> "tdh"
      [] pc = "tdh" -> "written"

\* Variant of TransmitWrite: the request bit is set with the identifier.
TransmitWrite_EarlyRequest(step, message, regs) ==
    CASE step = "txrq0" -> [regs EXCEPT !.tixr = SetFlag(@, TXRQ_POS, 0)]
      [] step = "id" -> [regs EXCEPT !.tixr = SetFlag(TixrOf(message, @), TXRQ_POS, 1)]
      [] step = "dlc" -> [regs EXCEPT !.tdtxr = SetDlc(@, message.dlc)]
      [] step = "tdl" -> [regs EXCEPT !.tdlxr = V32(message.data, 0)]
      [] step = "tdh" -> [regs EXCEPT !.tdhxr = V32(message.data, 1)]
      [] step = "written" -> [regs EXCEPT !.tixr = SetFlag(@, TXRQ_POS, 1)]

\* The register contents after one commit of transmit.
TransmitWrite(step, message, regs) ==
    CASE step = "txrq0" -> [regs EXCEPT !.tixr = SetFlag(@, TXRQ_POS, 0)]
      [] step = "id" -> [regs EXCEPT !.tixr = TixrOf(message, @)]
      [] step = "dlc" -> [regs EXCEPT !.tdtxr = SetDlc(@, message.dlc)]
      [] step = "tdl" -> [regs EXCEPT !.tdlxr = V32(message.data, 0)]
      [] step = "tdh" -> [regs EXCEPT !.tdhxr = V32(message.data, 1)]
      [] step = "written" -> [regs EXCEPT !.tixr = SetFlag(@, TXRQ_POS, 1)]

\* CanResourceTxMailbox::transmit on an empty mailbox, up to the commit of
\* TXRQ = 0.
MailboxTransmit(message) ==
    /\ codecPc = "idle"
    /\ codecIn' = message
    /\ codecRegs' = TransmitWrite(TransmitStep(codecPc), message, codecRegs)
    /\ codecPc' = TransmitStep(codecPc)
    /\ UNCHANGED codecOut
    /\ UNCHANGED nonCodecVars

\* The next commit of transmit.
MailboxCommit ==
    /\ codecPc \in {"txrq0", "id", "dlc", "tdl", "tdh"}
    /\ codecRegs' = TransmitWrite(TransmitStep(codecPc), codecIn, codecRegs)
    /\ codecPc' = TransmitStep(codecPc)
    /\ UNCHANGED <<codecIn, codecOut>>
    /\ UNCHANGED nonCodecVars

\* CanResourceRxFifo::start, the message built from RIxR, RDTxR, RDLxR and
\* RDHxR.
MessageOf(regs) ==
    Message(GetStid(regs.tixr), GetExid(regs.tixr),
            GetFlag(regs.tixr, RTR_POS) = 1,
            GetFlag(regs.tixr, IDE_POS) = 1,
            GetDlc(regs.tdtxr), V8(regs.tdlxr, regs.tdhxr))

\* The RX ISR reads the register contents transmit wrote.
StartDecode ==
    /\ codecPc = "written"
    /\ codecOut' = MessageOf(codecRegs)
    /\ codecPc' = "read"
    /\ UNCHANGED <<codecIn, codecRegs>>
    /\ UNCHANGED nonCodecVars

CodecNext ==
    \/ \E message \in Messages : MailboxTransmit(message)
    \/ MailboxCommit
    \/ StartDecode

SpecCodec == InitCodec /\ [][CodecNext]_vars

\* ------------------------------------------------------------- TX claims

RECURSIVE SumOwed(_)
SumOwed(i) == IF i >= NUMBER_OF_TX_MAILBOXS THEN 0 ELSE owed[i] + SumOwed(i + 1)

\* Producers that hold a permit and have not yet written a mailbox.
TxHolders == {p \in Producers : txPc[p] \in {"lock", "scan"}}

\* transmit calls whose permit has not been given back by the TX ISR.
HeldPermits == Cardinality(TxHolders) + SumOwed(0) + txLost

\* C1: in every reachable state at most 3 transmit calls hold a mailbox
\* permit that the TX ISR has not yet given back.
C1_AtMostThreePermitsHeld == HeldPermits <= 3

C1_Witness ==
    /\ HeldPermits = 3
    /\ \E p \in Producers : txPc[p] = "acquire"

\* C2: transmit never returns false on a constructed device: a call that
\* has acquired a permit finds an empty mailbox among those it still has to
\* scan, no permit is lost through the return-false path, and while all
\* three mailboxes are busy no permit is free, so a call blocks.
C2_TransmitNeverFalse ==
    /\ \A p \in Producers : txRes[p] # "false"
    /\ txLost = 0
    /\ \A p \in Producers :
          txPc[p] = "scan" =>
              \E i \in Mailboxes : i >= txI[p] /\ IsEmpty(i)
    /\ (\A i \in Mailboxes : ~IsEmpty(i)) => mailboxSem = 0

C2_Witness ==
    /\ \A i \in Mailboxes : ~IsEmpty(i)
    /\ mailboxSem = 0
    /\ \E p, q \in Producers :
          /\ txPc[p] = "acquire"
          /\ txPc[q] = "idle" /\ txRes[q] = "true"

\* C3: every request written by a successful transmit is acknowledged by
\* exactly one routine() returning true: never more acknowledgements than
\* requests, and once mailbox i is empty with no completion left to service,
\* every request written to it has been acknowledged.
C3_ExactlyOneAckPerRequest ==
    \A i \in Mailboxes :
        /\ owed[i] >= 0
        /\ (tme[i] = 1 /\ rqcp[i] = 0) => owed[i] = 0

MsgsOf(q) == {q[i] : i \in 1..Len(q)}

IsPrefix(a, b) == Len(a) <= Len(b) /\ \A i \in 1..Len(a) : a[i] = b[i]

\* The frames the ISR of FIFO f read from the hardware, in order.
LogMsgs(f) == [i \in 1..Len(rxLog[f]) |-> rxLog[f][i].msg]

\* Some ISR invocation of FIFO f found the software queue full.
Overflowed(f) == \E i \in 1..Len(rxLog[f]) : rxLog[f][i].full

\* Consumers inside receive on FIFO f.
RxCallers(f) == {t \in Receivers : rxPc[t] # "idle" /\ rxFifoOf[t] = f}

\* Consumers that hold a permit of FIFO f and have not yet removed a frame.
RxHolders(f) == {t \in RxCallers(f) : rxPc[t] \in {"lock", "peek", "remove"}}

\* C5: as long as the software queue of a FIFO has not overflowed, the frames
\* returned by receive on that FIFO are, in order, the first frames its ISR
\* accepted.
C5_FifoOrder ==
    \A f \in Fifos : ~Overflowed(f) => IsPrefix(rxDelivered[f], LogMsgs(f))

C5_Witness ==
    \E f \in Fifos :
        /\ ~Overflowed(f)
        /\ Len(rxDelivered[f]) >= 2
        /\ Len(rxQueue[f]) >= 1

\* C6: every frame returned by receive on FIFO f was read by the ISR of that
\* FIFO, no frame is returned twice, and a consumer gets past the acquire
\* only for a frame that is in the queue; no receive returns without a frame.
C6_ReceiveYieldsQueuedFrameOnce ==
    \A f \in Fifos :
        /\ \A i \in 1..Len(rxDelivered[f]) :
              /\ rxDelivered[f][i] \in MsgsOf(LogMsgs(f))
              /\ rxDelivered[f][i].fifo = f
        /\ \A i, j \in 1..Len(rxDelivered[f]) :
              i # j => rxDelivered[f][i] # rxDelivered[f][j]
        /\ Cardinality(RxHolders(f)) <= Len(rxQueue[f])
        /\ ~rxSpurious[f]

C6_Witness ==
    /\ \A f \in Fifos : Len(rxDelivered[f]) >= 1
    /\ \E t \in Receivers :
          rxPc[t] = "acquire" /\ rxQueue[rxFifoOf[t]] = <<>>

\* The accepted frames of FIFO f cover the consumers inside receive on it.
Enough(f) == Cardinality(RxCallers(f)) <= Len(rxQueue[f])

\* C7: under RxFairness a receive call waiting on FIFO f returns true, as
\* long as the consumers on that FIFO do not outnumber the accepted frames.
C7_BlockedReceiveReturnsTrue ==
    \A t \in Receivers : \A f \in Fifos :
        (rxPc[t] = "acquire" /\ rxFifoOf[t] = f /\ Enough(f))
            ~> \/ rxPc[t] = "idle" /\ rxRes[t] = "true"
               \/ ~Enough(f)

C7_Witness ==
    \E t \in Receivers :
        /\ rxPc[t] = "idle" /\ rxRes[t] = "true"
        /\ Len(rxDelivered[0]) >= 2

\* C8: every ISR invocation of a FIFO either adds one frame and one permit
\* or changes neither the queue length nor the permit count.
C8_IsrFramePermitPairing ==
    [][\A f \in Fifos :
          RxIsr(f) =>
              \/ /\ Len(rxQueue'[f]) = Len(rxQueue[f]) + 1
                 /\ rxSem'[f] = rxSem[f] + 1
              \/ /\ Len(rxQueue'[f]) = Len(rxQueue[f])
                 /\ rxSem'[f] = rxSem[f]]_vars

C8_Witness ==
    \E f \in Fifos :
        /\ Len(rxLog[f]) >= 4
        /\ rxLog[f][4].full
        /\ rxSem[f] < RxSemMaximum

\* Four frames were read by the ISR of FIFO f, the fourth before any receive
\* on f was served.
FourBeforeAnyReceive(f) == Len(rxLog[f]) = 4 /\ rxLog[f][4].served = 0

\* C9: locked mode, four frames before any receive is served: the queue keeps
\* frames 1, 2, 3, frame 4 is dropped and gets no permit, receive returns
\* frames 1, 2, 3 in that order, and after the third a further receive blocks.
C9_LockedOverrun ==
    \A f \in Fifos :
        (IsLocked /\ FourBeforeAnyReceive(f)) =>
            LET m == LogMsgs(f)
            IN  /\ rxLog[f][4].full
                /\ rxDelivered[f] \o rxQueue[f] = <<m[1], m[2], m[3]>>
                /\ rxSem[f] + Cardinality(RxHolders(f)) = Len(rxQueue[f])
                /\ Len(rxDelivered[f]) = 3 =>
                      /\ rxSem[f] = 0
                      /\ \A t \in RxCallers(f) : rxPc[t] = "acquire"

C9_Witness ==
    \E f \in Fifos :
        /\ IsLocked /\ FourBeforeAnyReceive(f)
        /\ Len(rxDelivered[f]) = 3
        /\ \E t \in RxCallers(f) : rxPc[t] = "acquire"

\* C10: unlocked mode, four frames before any receive is served: frame 4
\* replaces the oldest entry and gets no permit, and receive returns frames
\* 2, 3, 4 in that order.
C10_UnlockedOverrun ==
    \A f \in Fifos :
        (~IsLocked /\ FourBeforeAnyReceive(f)) =>
            LET m == LogMsgs(f)
            IN  /\ rxLog[f][4].full
                /\ rxDelivered[f] \o rxQueue[f] = <<m[2], m[3], m[4]>>
                /\ rxSem[f] + Cardinality(RxHolders(f)) = Len(rxQueue[f])

C10_Witness ==
    \E f \in Fifos :
        /\ ~IsLocked /\ FourBeforeAnyReceive(f)
        /\ Len(rxDelivered[f]) = 3

\* ---------------------------------------------------------- device claims

\* The constructor of the device has returned with setConstructed(false).
ConstructionFailed == devPc \notin {"none", "nodevice"} /\ createRes # "none"
                      /\ devPc \notin {"tx_", "fifo0_", "fifo1_", "sce_",
                                       "construct", "poll1", "configure",
                                       "poll2", "ier"}
                      /\ ~engine.dev

\* The destructor of the device has come to its end, by returning or by the
\* fault of a call through a handle that is NULLPTR.
DropEnded == devPc \in {"destroyed", "halted"}

\* C11: on a device object whose construction failed, transmit, receive and
\* setReceiveFilter return false: no call returns true, none is blocked on a
\* semaphore, no permit and no mutex is taken, no mailbox and no filter
\* register is written.
C11_FailedDeviceRefusesAll ==
    (DeviceExists /\ ~engine.dev) =>
        /\ \A p \in Producers : txRes[p] # "true"
        /\ \A t \in Receivers : rxRes[t] # "true"
        /\ \A c \in FilterCallers : fRes[c] # "true"
        /\ \A t \in Receivers :
              ~(rxPc[t] = "acquire" /\ rxSem[rxFifoOf[t]] = 0)
        /\ mailboxSem = TxSemInitial
        /\ txMutex = NoThread /\ filterMutex = NoThread
        /\ \A i \in Mailboxes : tme[i] = 1
        /\ fmrFinit = 1 /\ fa1r = {} /\ fm1r = {} /\ fs1r = {} /\ ffa1r = {}

\* C12: once a device whose construction failed has been dropped, the clock
\* gate of CAN1 is off, no IER bit is set and no interrupt handle is enabled.
C12_FailedDeviceDropsClean ==
    (ConstructionFailed /\ DropEnded) =>
        /\ can1en = 0
        /\ ier = {}
        /\ \A h \in Sources : irq[h] # "enabled"

\* Can::create has come to its end.
CreateEnded == devPc \in {"nodevice", "alive", "destroyed", "halted"}

\* C13: Can::create returns a handle only for a device that reports
\* isConstructed(); when the controller, the allocation or the construction
\* of the device failed, create has returned NULLPTR and no device is left.
C13_CreateNullOnFailure ==
    /\ createRes = "handle" => engine.dev
    /\ (CreateEnded /\ ~engine.dev) =>
           /\ createRes = "null"
           /\ devPc \in {"nodevice", "destroyed"}

\* The steps of initialize that enable the clock gate or write MCR, BTR, IER.
InitWrites == {"CAN1EN=1", "MCR.SLEEP=0", "MCR.INRQ=1", "MCR", "BTR",
               "MCR.INRQ=0", "IER"}

LogHas(events) == \E k \in 1..Len(devLog) : devLog[k] \in events

\* C14: with config.number other than CAN1, or a cpu clock other than 72 MHz,
\* the constructor ends with setConstructed(false), create returns no
\* handle, and up to that end the clock gate was not enabled and none of
\* MCR, BTR, IER was written by initialize.
C14_BadConfigFailsEarly ==
    (devPc \notin {"none", "nodevice"}
        /\ (cfgNumber # NUMBER_CAN1 \/ cpuClock # CPU_CLOCK_72MHZ)) =>
        /\ ~engine.dev
        /\ createRes # "handle"
        /\ devPc \notin {"poll1", "configure", "poll2", "ier", "alive"}
        /\ can1en = 0
        /\ ier = {}
        /\ ~LogHas(InitWrites)

C14_Witness ==
    /\ devPc = "built"
    /\ cfgNumber = NUMBER_CAN1 /\ cpuClock # CPU_CLOCK_72MHZ
    /\ engine.tx /\ engine.rx
    /\ ~engine.dev

\* C15: after a wait of initialize that ended without INAK showing the
\* awaited value, the device is never declared constructed and no IER bit is
\* ever set.
C15_ExpiredPollFailsConstruction ==
    pollExpired => (~engine.dev /\ ier = {} /\ createRes # "handle")

\* C19: when the destruction of a device has ended, whatever the state it
\* started from, no IER bit is set, no interrupt handle is enabled and the
\* clock gate of CAN1 is off; these are the values the writes of the
\* destructors produce, so that repeating them changes nothing.
C19_DeinitEndsClean ==
    DropEnded =>
        /\ ier = {}
        /\ \A h \in Sources : irq[h] \in {"null", "disabled"}
        /\ can1en = 0


\* ---------------------------------------------------------------------------
\* Filter claims
\* ---------------------------------------------------------------------------

\* Callers between their FINIT = 1 write and their FINIT = 0 write.
InFilterWindow ==
    {c \in FilterCallers :
        fPc[c] \in {"deactivate", "mode", "scale", "fifo", "bank", "activate",
                    "finit0"}}

\* Callers inside setReceiveFilter.
InSetReceiveFilter == {c \in FilterCallers : fPc[c] # "idle"}

\* C16: setReceiveFilter with filter.index >= 14 returns false at once: FMR,
\* FA1R, FM1R, FS1R, FFA1R and the bank registers keep their values and the
\* filter mutex is not taken.
C16_InvalidIndexRejected ==
    [][\A c \in FilterCallers, flt \in FilterInputs :
          (flt.index >= NUMBER_OF_FILTER_GROUPS /\ FilterCall(c, flt))
              => /\ fRes'[c] = "false"
                 /\ fPc'[c] = "idle"
                 /\ UNCHANGED <<filterRegs, filterMutex>>]_vars

\* A call with the index 14 or 15 has returned false while another caller is
\* in the middle of programming a bank.
C16_Witness ==
    \E c \in FilterCallers :
        /\ fArg[c].index >= NUMBER_OF_FILTER_GROUPS
        /\ fRes[c] = "false"
        /\ fPc[c] = "idle"
        /\ \E d \in FilterCallers \ {c} : fPc[d] = "bank"

\* The writes of setReceiveFilter: a caller about to write FA1R, FM1R, FS1R,
\* FFA1R or a bank register sees FINIT = 1, and the bank it writes the mode,
\* the scale, the FIFO assignment and the words of is not active; at most one
\* caller is between its FINIT = 1 and FINIT = 0 writes.
FilterWritesGuarded ==
    /\ \A c \in FilterCallers :
          fPc[c] \in {"deactivate", "mode", "scale", "fifo", "bank", "activate"}
              => fmrFinit = 1
    /\ \A c \in FilterCallers :
          fPc[c] \in {"mode", "scale", "fifo", "bank"}
              => fArg[c].index \notin fa1r
    /\ Cardinality(InFilterWindow) <= 1

\* Some setReceiveFilter call has returned true.
SomeFilterSet == \E b \in Banks : bankCfg[b] # NoFilter

\* C17 as stated: every filter write happens under FINIT = 1 with the written
\* bank deactivated, at most one caller is in the window, and FINIT = 0
\* whenever no caller is inside setReceiveFilter.
C17_FinitZeroWheneverIdle ==
    /\ FilterWritesGuarded
    /\ InSetReceiveFilter = {} => fmrFinit = 0

\* C17 amended: the same, with FINIT = 0 whenever no caller is inside
\* setReceiveFilter once a call has returned true.
C17_FilterWindow ==
    /\ FilterWritesGuarded
    /\ (InSetReceiveFilter = {} /\ SomeFilterSet) => fmrFinit = 0

\* One caller writes the words of its bank while the other waits for the
\* mutex, after an earlier call has returned true.
C17_Witness ==
    /\ SomeFilterSet
    /\ \E c \in FilterCallers :
          /\ fPc[c] = "bank"
          /\ fmrFinit = 1
          /\ \E d \in FilterCallers \ {c} : fPc[d] = "lock"

\* The bits of bank b in FA1R, FM1R, FS1R and FFA1R and its two words.
BankState(b) ==
    <<b \in fa1r, b \in fm1r, b \in fs1r, b \in ffa1r, firx[b]>>

\* The sequence numbers of a sequence of frames rise strictly.
Rising(q) == \A i, j \in 1..Len(q) : i < j => q[i].seq < q[j].seq

\* C18: setReceiveFilter is atomic towards receive: no step of it touches a
\* software queue, a semaphore or a hardware FIFO, no step of it changes the
\* activation, mode, scale, FIFO assignment or words of a bank other than the
\* one it programs, and every frame the ISR took from a FIFO that did not
\* overflow is delivered once, in order, or still queued.
C18_FilterAtomicTowardsReceive ==
    /\ [][(FilterLock(1) \/ FilterStep(1)
             \/ \E flt \in FilterInputs : FilterCall(1, flt))
          => /\ UNCHANGED <<rxQueue, rxSem, hwFifo, rxDelivered, rxLog>>
             /\ \A b \in Banks \ {fArg'[1].index} :
                   BankState(b)' = BankState(b)]_vars
    /\ [](\A f \in Fifos :
            /\ Rising(LogMsgs(f) \o hwFifo[f])
            /\ ~Overflowed(f) => rxDelivered[f] \o rxQueue[f] = LogMsgs(f))

\* While the caller writes the words of bank 0, FIFO 1, fed by bank 13, has
\* delivered a frame, holds a queued frame and a pending hardware entry.
C18_Witness ==
    /\ fPc[1] = "bank"
    /\ fArg[1].index = 0
    /\ 0 \notin fa1r
    /\ Len(rxDelivered[1]) > 0
    /\ ~FifoIsEmpty(rxQueue[1])
    /\ Len(hwFifo[1]) > 0


\* ---------------------------------------------------------------------------
\* Frame claims
\* ---------------------------------------------------------------------------

\* C20: a frame with dlc in 0..8 written by transmit and read back by the RX
\* ISR from the same register contents has the same ide, rtr and dlc, the
\* same stid, the same exid if it is an extended frame, and the same first
\* dlc payload bytes.
C20_RoundTrip ==
    (codecPc = "read" /\ codecIn.dlc \in 0..DATA_BYTES)
        => /\ codecOut.ide = codecIn.ide
           /\ codecOut.rtr = codecIn.rtr
           /\ codecOut.dlc = codecIn.dlc
           /\ codecOut.id.stid = codecIn.id.stid
           /\ codecIn.ide => codecOut.id.exid = codecIn.id.exid
           /\ \A i \in 1..DATA_BYTES :
                 i <= codecIn.dlc => codecOut.data[i] = codecIn.data[i]

\* An extended remote frame with every identifier bit set and eight payload
\* bytes with the top bit of each word set went through a mailbox that held
\* no bit before.
C20_Witness ==
    /\ codecPc = "read"
    /\ codecIn.ide
    /\ codecIn.rtr
    /\ codecIn.dlc = DATA_BYTES
    /\ codecIn.id.stid = Pow2(STID_WIDTH) - 1
    /\ codecIn.id.exid = Pow2(EXID_WIDTH) - 1
    /\ codecIn.data[DATA_BYTES] = Pow2(BYTE_WIDTH - 1) + DATA_BYTES
    /\ codecOut = codecIn


\* ---------------------------------------------------------------------------
\* Mailbox claims
\* ---------------------------------------------------------------------------

\* The TSR snapshot of mailbox i shows a completed request.
Completed(i) == rqcp[i] = 1 /\ tme[i] = 1

Least(a, b) == IF a < b THEN a ELSE b

\* C21: the error counter of a mailbox is the number of its acknowledged
\* completions without TXOK, 0 at the start, cut at 0x20000000; it never
\* decreases, it changes only in the TX ISR, and a routine call whose
\* snapshot has RQCP = 1, TME = 1 and TXOK = 0 adds exactly one to it unless
\* it stands at the limit.
C21_ErrorCounter ==
    /\ [](\A i \in Mailboxes :
            /\ errorCounter[i] = Least(errEvents[i], ERROR_COUNTER_LIMIT)
            /\ errorCounter[i] >= 0
            /\ errorCounter[i] <= ERROR_COUNTER_LIMIT)
    /\ [][\A i \in Mailboxes :
            /\ errorCounter'[i] >= errorCounter[i]
            /\ errorCounter'[i] # errorCounter[i]
                  => /\ TxIsr
                     /\ Completed(i) /\ "TXOK" \notin txStatus[i]
                     /\ errorCounter'[i] = errorCounter[i] + 1
            /\ (TxIsr /\ Completed(i) /\ "TXOK" \notin txStatus[i]
                  /\ errorCounter[i] < ERROR_COUNTER_LIMIT)
                  => errorCounter'[i] = errorCounter[i] + 1]_vars

\* A mailbox has acknowledged one failed request more than the limit and
\* its counter stands at the limit, while another mailbox counts from 0.
C21_Witness ==
    \E i, j \in Mailboxes :
        /\ errEvents[i] = ERROR_COUNTER_LIMIT + 1
        /\ errorCounter[i] = ERROR_COUNTER_LIMIT
        /\ errorCounter[j] = 0

\* C24: routine of mailbox i returns true exactly when its snapshot has
\* RQCP = 1 and TME = 1; a call that returns false leaves TSR and the error
\* counters as they are; the TX ISR releases one permit for each routine
\* that returned true, up to the maximum of the semaphore.
C24_RoutineResult ==
    /\ [](\A i \in Mailboxes :
            LET r == Routine(i, TxIsrState)
            IN  /\ r.res = Completed(i)
                /\ ~r.res => /\ r.rqcp = rqcp
                             /\ r.status = txStatus
                             /\ r.err = errorCounter)
    /\ [][TxIsr =>
            /\ mailboxSem' =
                  Least(mailboxSem
                          + Cardinality({i \in Mailboxes : Completed(i)}),
                        TxSemMaximum)
            /\ \A i \in Mailboxes :
                  ~Completed(i) => /\ rqcp'[i] = rqcp[i]
                                   /\ txStatus'[i] = txStatus[i]
                                   /\ errorCounter'[i] = errorCounter[i]]_vars

\* The routine of one mailbox returns true and that of a mailbox with a
\* request under way returns false, after a failed request was counted.
C24_Witness ==
    \E i, j \in Mailboxes :
        /\ Routine(i, TxIsrState).res
        /\ ~Routine(j, TxIsrState).res /\ tme[j] = 0
        /\ \E k \in Mailboxes : errorCounter[k] = 1

\* C25: clearRequestStatus of mailbox i leaves RQCP, TXOK, ALST and TERR of
\* the other mailboxes as they are, and the TX ISR acknowledges every
\* completion that is pending when it starts.
C25_ClearOwnFlagOnly ==
    /\ [](\A i \in Mailboxes :
            LET r == ClearRequestStatus(i, TxIsrState)
            IN  \A j \in Mailboxes \ {i} :
                    r.rqcp[j] = rqcp[j] /\ r.status[j] = txStatus[j])
    /\ [][TxIsr =>
            \A j \in Mailboxes :
                Completed(j) => /\ rqcp'[j] = 0
                                /\ txStatus'[j] = {}
                                /\ owed'[j] = owed[j] - 1]_vars

\* Two completions with different outcomes are pending at once, after a
\* failed request was counted.
C25_Witness ==
    \E i, j \in Mailboxes :
        /\ Completed(i) /\ txStatus[i] = {"TXOK"}
        /\ Completed(j) /\ txStatus[j] = {"TERR"}
        /\ \E k \in Mailboxes : errorCounter[k] = 1

C22_HandlerClearsRequest == [][StatusStart => ~SceIrq']_vars

\* C23: in a device whose construction succeeded, each of the MCR bits TXFP,
\* RFLM, NART, AWUM, ABOM, TTCM and DBF equals the bit of the config.
C23_McrOptionsFromConfig ==
    engine.dev =>
        /\ mcrOpt.txfp = cfgMcr.txfp
        /\ mcrOpt.rflm = rflm
        /\ mcrOpt.nart = cfgMcr.nart
        /\ mcrOpt.awum = cfgMcr.awum
        /\ mcrOpt.abom = cfgMcr.abom
        /\ mcrOpt.ttcm = cfgMcr.ttcm
        /\ mcrOpt.dbf = cfgMcr.dbf


\* ---------------------------------------------------------------------------
\* Order of the writes of transmit
\* ---------------------------------------------------------------------------

Txrq == GetFlag(codecRegs.tixr, TXRQ_POS)

\* Registers that hold what the request asks for.
IdWritten ==
    /\ GetFlag(codecRegs.tixr, RTR_POS) = (IF codecIn.rtr THEN 1 ELSE 0)
    /\ GetFlag(codecRegs.tixr, IDE_POS) = (IF codecIn.ide THEN 1 ELSE 0)
    /\ GetStid(codecRegs.tixr) = codecIn.id.stid % Pow2(STID_WIDTH)
    /\ GetExid(codecRegs.tixr) = (IF codecIn.ide THEN codecIn.id.exid % Pow2(EXID_WIDTH) ELSE 0)

DlcWritten == GetDlc(codecRegs.tdtxr) = codecIn.dlc % Pow2(DLC_WIDTH)

TdlWritten == codecRegs.tdlxr = V32(codecIn.data, 0)

TdhWritten == codecRegs.tdhxr = V32(codecIn.data, 1)

\* C27: transmit writes TXRQ = 0, then the identifier fields, then DLC, then
\* TDLxR, then TDHxR and last TXRQ = 1: each register changes only at its
\* place in this order, what was written before stays written, and TXRQ is
\* 0 until the identifier, DLC and data registers are all written.
C27_TransmitOrder ==
    /\ [](/\ codecPc \in {"txrq0", "id", "dlc", "tdl", "tdh"} => Txrq = 0
          /\ codecPc \in {"id", "dlc", "tdl", "tdh", "written"} => IdWritten
          /\ codecPc \in {"dlc", "tdl", "tdh", "written"} => DlcWritten
          /\ codecPc \in {"tdl", "tdh", "written"} => TdlWritten
          /\ codecPc \in {"tdh", "written"} => TdhWritten
          /\ codecPc = "written" => Txrq = 1)
    /\ [][/\ codecRegs'.tixr # codecRegs.tixr => codecPc \in {"idle", "txrq0", "tdh"}
          /\ codecRegs'.tdtxr # codecRegs.tdtxr => codecPc = "id"
          /\ codecRegs'.tdlxr # codecRegs.tdlxr => codecPc = "dlc"
          /\ codecRegs'.tdhxr # codecRegs.tdhxr => codecPc = "tdl"
          /\ Txrq' = 1 => (IdWritten' /\ DlcWritten' /\ TdlWritten' /\ TdhWritten')]_vars

\* A request whose every register differs from the content of the mailbox
\* before the call has been written completely.
C27_Witness ==
    /\ codecPc = "written"
    /\ Txrq = 1
    /\ codecIn.ide
    /\ codecIn.id.exid # 0
    /\ codecIn.dlc # 0
    /\ codecRegs.tdlxr # Word(0, 0)


\* ---------------------------------------------------------------------------
\* One hardware entry per RX interrupt
\* ---------------------------------------------------------------------------

\* C28: an invocation of the RX ISR that finds FMPx > 0 reads the output
\* mailbox once and releases exactly one hardware entry, whether the frame
\* is queued, dropped or replaces the oldest queued frame; an invocation
\* that finds FMPx == 0 leaves the hardware FIFO, the software queue and the
\* permit count as they are.
C28_OneEntryPerInterrupt ==
    [][\A f \in Fifos :
        /\ rxLog'[f] # rxLog[f] =>
              /\ Len(hwFifo[f]) > 0
              /\ Len(rxLog'[f]) = Len(rxLog[f]) + 1
              /\ rxLog'[f][Len(rxLog'[f])].msg = Head(hwFifo[f])
              /\ hwFifo'[f] = Tail(hwFifo[f])
              /\ Len(hwFifo'[f]) = Len(hwFifo[f]) - 1
              /\ rxQueue'[f] =
                    (IF Len(rxQueue[f]) < NUMBER_OF_RX_MAILBOXS_IN_FIFO
                     THEN Append(rxQueue[f], Head(hwFifo[f]))
                     ELSE IF rflm = 1
                          THEN rxQueue[f]
                          ELSE Append(Tail(rxQueue[f]), Head(hwFifo[f])))
        /\ rxIdleIsr'[f] # rxIdleIsr[f] =>
              /\ Len(hwFifo[f]) = 0
              /\ UNCHANGED <<hwFifo, rxQueue, rxSem, rxLog>>]_vars

\* The ISR of FIFO 0 has met a full software queue, so a frame was dropped
\* or has replaced the oldest one, and has been invoked with FMP0 == 0.
C28_Witness ==
    /\ \E k \in 1..Len(rxLog[0]) : rxLog[0][k].full
    /\ rxIdleIsr[0] > 0
    /\ hwFifo[0] = <<>>


\* ---------------------------------------------------------------------------
\* Order of the steps of construction
\* ---------------------------------------------------------------------------

\* The steps of devLog before step k.
Before(k) == 1..(k - 1)

\* C29: the MCR options and BTR are written after INAK == 1 was observed
\* for the INRQ = 1 of the constructor and before INRQ is cleared, and the
\* IER bits are written only after INAK == 0 was observed for INRQ = 0.
C29_ConfigInInitMode ==
    \A k \in 1..Len(devLog) :
        /\ devLog[k] \in {"MCR", "BTR"} =>
              /\ \E j \in Before(k) :
                    /\ devLog[j] = "poll INAK==1"
                    /\ \E i \in Before(j) : devLog[i] = "MCR.INRQ=1"
              /\ \A j \in Before(k) : devLog[j] # "MCR.INRQ=0"
        /\ devLog[k] = "IER" =>
              \E j \in Before(k) :
                  /\ devLog[j] = "poll INAK==0"
                  /\ \E i \in Before(j) : devLog[i] = "MCR.INRQ=0"

\* C30: the TX, RX0 and RX1 interrupt handles are enabled after INAK == 0
\* was observed for INRQ = 0 and before the IER bits are set, and never while
\* the clock gate of CAN1 is still off.
C30_HandlesAfterInit ==
    \A k \in 1..Len(devLog) :
        devLog[k] \in {"irq tx", "irq rx0", "irq rx1"} =>
            /\ \E j \in Before(k) : devLog[j] = "poll INAK==0"
            /\ \E j \in Before(k) : devLog[j] = "CAN1EN=1"
            /\ \A j \in Before(k) : devLog[j] # "IER"


\* ---------------------------------------------------------------------------
\* Bounds and conservation of the RX path
\* ---------------------------------------------------------------------------

\* C31: for each RX FIFO the software queue holds at most 3 frames, the
\* permit count is between 0 and 3, and the queued frames and the frames
\* pending in the hardware FIFO are at most 6 together.
C31_RxBounds ==
    \A f \in Fifos :
        /\ Len(rxQueue[f]) <= 3
        /\ rxSem[f] \in 0..3
        /\ Len(rxQueue[f]) + Len(hwFifo[f]) <= 6

\* The software queue and the hardware FIFO of FIFO 0 are both full, with
\* every permit free, and a further frame has arrived.
C31_Witness ==
    /\ Len(rxQueue[0]) = 3
    /\ Len(hwFifo[0]) = 3
    /\ rxSem[0] = 3
    /\ arrived > 6


\* ---------------------------------------------------------------------------
\* The wait loops of initialize
\* ---------------------------------------------------------------------------

InWait == devPc \in {"poll1", "poll2"}

\* C32: a wait loop of initialize ends after at most 0x10000 reads of MSR,
\* whatever INAK shows at each read: the loop is never found running after
\* 0x10000 reads, and it leaves with timeout and outcome as the closed form
\* PollInak gives them for the number of reads that did not show the
\* awaited value.
C32_WaitBounded ==
    /\ msrReads <= POLL_TIMEOUT + 1
    /\ InWait => msrReads <= POLL_TIMEOUT
    /\ InWait => timeout = U32(0, POLL_TIMEOUT - msrReads)
    /\ (~InWait /\ ~pollExpired) => timeout = PollInak(msrReads - 1).timeout
    /\ (~InWait /\ pollExpired) =>
          /\ msrReads = POLL_TIMEOUT + 1
          /\ timeout = PollInak(POLL_TIMEOUT + 1).timeout

\* The second wait has ended at its read 0x10000 with INAK still 1.
C32_Witness ==
    /\ msrReads = POLL_TIMEOUT + 1
    /\ pollExpired
    /\ inak = 1
    /\ mcr.inrq = 0
    /\ ~InWait

\* C40: initialize fails at a wait only when the awaited INAK was never
\* observed; an acknowledge at any read within the budget, the last one
\* included, lets the construction go on.
C40_FailsOnlyWhenNeverSeen == devPc = "built" => pollExpired


\* ---------------------------------------------------------------------------
\* Effect of setReceiveFilter on the banks
\* ---------------------------------------------------------------------------

\* The bits and words of a bank that the filter flt was set for, and those
\* of a bank no call has programmed.
BankStateOf(flt) ==
    IF flt = NoFilter
    THEN <<FALSE, FALSE, FALSE, FALSE, <<0, 0>>>>
    ELSE <<TRUE, flt.mode = "IDLIST", flt.scale = "32BIT", flt.fifo = 1,
           flt.words>>

\* Banks a caller is programming, between its FINIT = 1 and FINIT = 0 writes.
BanksInWork == {fArg[c].index : c \in InFilterWindow}

\* C33: a setReceiveFilter call that returned true for bank k leaves bit k
\* of FA1R set, bits k of FM1R, FS1R and FFA1R as the mode, scale and FIFO of
\* the filter and the two words of bank k as the words of the filter; every
\* other bank keeps its bits and words, those of the last call that returned
\* true for it or the reset values.
C33_FilterEffect ==
    /\ \A b \in Banks \ BanksInWork : BankState(b) = BankStateOf(bankCfg[b])
    /\ \A c \in FilterCallers :
          (fRes[c] = "true" /\ fPc[c] = "idle" /\ fArg[c].index \notin BanksInWork)
              => \/ BankState(fArg[c].index) = BankStateOf(fArg[c])
                 \/ bankCfg[fArg[c].index] # fArg[c]

\* Bank 0 was programmed for FIFO 1 in list mode and 16-bit scale, bank 13
\* was programmed by the other caller, and nobody is inside a call.
C33_Witness ==
    /\ InSetReceiveFilter = {}
    /\ bankCfg[0] = Filter(0, 1, "IDLIST", "16BIT", 1, 2)
    /\ bankCfg[NUMBER_OF_FILTER_GROUPS - 1] # NoFilter
    /\ \E c \in FilterCallers : fRes[c] = "true" /\ fArg[c].index = 0
    /\ \E c \in FilterCallers :
          fRes[c] = "true" /\ fArg[c].index = NUMBER_OF_FILTER_GROUPS - 1


\* ---------------------------------------------------------------------------
\* Conservation of the permits
\* ---------------------------------------------------------------------------

\* Mailboxes that hold a request not yet acknowledged: pending in the
\* controller, or completed with RQCPx still set.
Unacknowledged == {i \in Mailboxes : tme[i] = 0 \/ rqcp[i] = 1}

\* C34: the free permits of the mailbox semaphore, the transmit calls that
\* hold a permit and have not yet written a mailbox, and the mailboxes with
\* a request written and not yet acknowledged are 3 together.
C34_TxPermitConservation ==
    mailboxSem + Cardinality(TxHolders) + Cardinality(Unacknowledged) = 3


\* C35: for each RX FIFO the permit count and the receive calls that have
\* acquired a permit and not yet removed a frame are as many as the queued
\* frames, so a receive past its acquire finds the queue non-empty and never
\* returns false.
C35_RxPermitConservation ==
    \A f \in Fifos :
        /\ rxSem[f] + Cardinality(RxHolders(f)) = Len(rxQueue[f])
        /\ \A t \in RxHolders(f) : ~FifoIsEmpty(rxQueue[f])
        /\ ~rxSpurious[f]
        /\ \A t \in Receivers : rxRes[t] # "false"

\* A consumer of FIFO 0 is between peek and remove while the ISR has met the
\* full queue, and the other consumer waits for the mutex.
C35_Witness ==
    /\ Overflowed(0)
    /\ Len(rxQueue[0]) = 3
    /\ \E t \in RxHolders(0) : rxPc[t] = "remove"
    /\ \E t \in RxHolders(0) : rxPc[t] = "lock"
    /\ rxSem[0] = 1


\* C36: when the ISR of a FIFO runs between peek and remove of a receive
\* call, the frame remove takes from the queue is the frame the call
\* returns: the head of the queue of a call about to remove is the frame it
\* has copied to *message.
C36_RemovedIsReturned ==
    \A t \in Receivers :
        rxPc[t] = "remove" =>
            /\ ~FifoIsEmpty(rxQueue[rxFifoOf[t]])
            /\ FifoPeek(rxQueue[rxFifoOf[t]]) = rxMsg[t]


\* ---------------------------------------------------------------------------
\* Semaphores and mutexes
\* ---------------------------------------------------------------------------

\* Positions of a caller of setReceiveFilter inside the guard.
FilterGuarded ==
    {"finit1", "deactivate", "mode", "scale", "fifo", "bank", "activate",
     "finit0"}

\* C37: a thread that waits for a permit holds no driver mutex; each mutex
\* is held exactly by the thread that is inside its guard, and that thread
\* waits for nothing: its next step is enabled and the guard is released on
\* return, so the threads waiting for a mutex get it and no state is a
\* deadlock among the threads.
C37_NoWaitUnderMutex ==
    /\ \A p \in Producers :
          /\ txPc[p] = "acquire" => txMutex # p
          /\ txPc[p] = "scan" <=> txMutex = p
          /\ txMutex = p => ENABLED TxScan(p)
    /\ \A t \in Receivers : \A f \in Fifos :
          /\ rxPc[t] = "acquire" => rxMutex[f] # t
          /\ (rxPc[t] \in {"peek", "remove"} /\ rxFifoOf[t] = f)
                <=> rxMutex[f] = t
          /\ rxMutex[f] = t => ENABLED (RxPeek(t) \/ RxRemove(t))
    /\ \A c \in FilterCallers :
          /\ fPc[c] \in FilterGuarded <=> filterMutex = c
          /\ filterMutex = c => ENABLED FilterStep(c)

\* A producer and a consumer wait for a permit that is not there, while the
\* three mutexes are held by other threads and a caller of setReceiveFilter
\* waits for the filter mutex.
C37_Witness ==
    /\ mailboxSem = 0 /\ rxSem[0] = 0
    /\ \E p \in Producers : txPc[p] = "acquire"
    /\ \E t \in Receivers : rxPc[t] = "acquire" /\ rxFifoOf[t] = 0
    /\ txMutex # NoThread
    /\ rxMutex[0] # NoThread
    /\ filterMutex # NoThread
    /\ \E c \in FilterCallers : fPc[c] = "lock"


\* ---------------------------------------------------------------------------
\* Engines and interrupt handles of a device
\* ---------------------------------------------------------------------------

\* C38: a device that reports isConstructed() has its TX engine, its RX
\* engine with both FIFOs and its status engine constructed, each with its
\* interrupt handle created and enabled.
C38_ConstructedHasAllEngines ==
    engine.dev =>
        /\ engine.tx /\ engine.fifo0 /\ engine.fifo1 /\ engine.rx /\ engine.sce
        /\ devPc \in {"built", "alive"} =>
              \A h \in Sources : irq[h] = "enabled"


\* C39: the destructors call disable() only through a handle that was
\* created: a destructor about to run finds its handle non-null, and no
\* destruction ends in the fault of a call through NULLPTR.
C39_DisableOnlyCreated ==
    /\ devPc = "~sce_" => irq["sce"] # "null"
    /\ devPc = "~fifo1_" => irq["rx1"] # "null"
    /\ devPc = "~fifo0_" => irq["rx0"] # "null"
    /\ devPc = "~tx_" => irq["tx"] # "null"
    /\ devPc # "halted"

====
